---- MODULE Spec2Model ----
(***************************************************************************)
(* A model of the CoinGecko service of cointop                             *)
(* (pkg/api/impl/coingecko/coingecko.go): the resolution table built by    *)
(* cacheCoinsIDList and read by coinNameToID, the paginated acquisition    *)
(* pipeline of GetAllCoinData, the targeted fetches, Price and Ping with   *)
(* the normalization of a page; and of cointop/cointop.go: the cache        *)
(* seeding of NewCointop over the volatile and the durable cache tier, its *)
(* restore of the coin list from the durable snapshot, and Clean and Reset *)
(* over the cache directory and the configuration paths; and of the page   *)
(* and row navigation of cointop/navigation.go.                            *)
(*                                                                         *)
(* Strings are sequences of one-character strings, so that ToLower,        *)
(* TrimSpace, Split and NameToSlug are computed character by character.    *)
(* The alphabet is the letters used below, the space (the only white       *)
(* space) and the hyphen.                                                  *)
(***************************************************************************)
EXTENDS Integers, Sequences, FiniteSets, TLC

VARIABLES
    \* ---- resolver (Service.cacheMap and the run of NewCoinGecko) ----
    listResp,     \* what client.CoinsList answers: "err", "nil" or "list"
    catalog,      \* the list client.CoinsList returns (when "list")
    bpc,          \* position of NewCoinGecko: "start", "pass1", "pass2", "built"
    idx,          \* index of the next element of the running range loop
    firstWords,   \* the local firstWords of cacheCoinsIDList
    cacheMap,     \* Service.cacheMap: key -> ID
    buildErr,     \* what cacheCoinsIDList returned: "none", "nil" or "err"
    returned,     \* NewCoinGecko has returned the Service to its caller
    lastOp,       \* the Service operation that completed and its result, until taken
    \* ---- GetAllCoinData (producer goroutine, channel, consumer) ----
    provPages,    \* number of pages of data the provider holds
    chCap,        \* capacity of the channel the caller passed
    pc,           \* position of the goroutine
    i,            \* its loop variable
    coins,        \* the batch it holds between the fetch and the send
    buf,          \* the channel's buffer
    closed,       \* how many times close(ch) has run
    consumer,     \* "active", "abandoned" or "done" (saw the close)
    received,     \* batches the consumer received, in order
    requested,    \* page numbers passed to client.CoinsMarket, in order
    emitted,      \* batches sent on the channel, in order
    firstFail,    \* page of the first failed request, 0 when none failed
    sleeps,       \* number of time.Sleep calls completed
    retErr,       \* what GetAllCoinData returned to its caller
    \* ---- NewCointop and the two cache tiers (cointop.go) ----
    hasFile,      \* ct.filecache is not nil
    dur,          \* the durable tier: key -> <<>> (absent) or <<value>>
    vol,          \* ct.cache: key -> <<>> or <<[value, expires]>>
    now,          \* the clock, in seconds
    spc,          \* position of NewCointop in its cache seeding
    globaldata,   \* its local globaldata
    market,       \* its local market
    refreshed,    \* keys written by a refresh since the start
    \* ---- NewCointop restoring the coin list (cointop.go) ----
    snapshot,         \* what filecache.Get yields for "allCoinsSlugMap"
    allCoinsSlugMap,  \* ct.State.allCoinsSlugMap
    allCoins,         \* ct.State.allCoins
    stateCoins,       \* ct.State.coins
    npc,              \* position of NewCointop in the restore
    \* ---- Clean and Reset (cointop.go) ----
    cacheDir,     \* the cache directory: "absent", "present" or "unreadable"
    dirFiles,     \* names of the files in the cache directory
    dirFiles0,    \* the names that were there when the call began
    stuck,        \* names whose os.Remove fails
    pending,      \* what is left of the range over ioutil.ReadDir's result
    configPaths,  \* possibleConfigPaths: "absent", "present" or "stuck" each
    configPaths0, \* the same when the call began
    cfgIdx,       \* index of the next element of the range over the paths
    kpc,          \* position of the running call
    kop,          \* the call that runs: "Clean" or "Reset"
    cleanRet,     \* what Clean returned: "none", "nil" or "err"
    resetRet,     \* what Reset returned: "none", "nil" or "err"
    \* ---- two runs of GetAllCoinData on one channel (coingecko.go) ----
    runs,         \* number of calls of GetAllCoinData made with the channel
    tpc,          \* position of the goroutine of each call
    ti,           \* the loop variable of each goroutine
    tclosed,      \* how many times close(ch) has been executed
    tsentClosed,  \* how many sends were executed on the closed channel
    tfault,       \* the runtime panic that ended the process, or "none"
    \* ---- table navigation (navigation.go) ----
    listCount,    \* ct.GetListCount()
    perPage,      \* ct.State.perPage
    page,         \* ct.State.page
    tableLen,     \* ct.TableRowsLen()
    viewHeight,   \* ct.Views.Table.Height()
    oy,           \* the origin of the table view (its y)
    cy,           \* the cursor of the table view (its y)
    navFault,     \* the runtime panic that ended the process, or "none"
    navOp         \* the navigation call that completed last and its result

rvars == <<listResp, catalog, bpc, idx, firstWords, cacheMap, buildErr, returned, lastOp>>
fvars == <<provPages, chCap, pc, i, coins, buf, closed, consumer, received,
           requested, emitted, firstFail, sleeps, retErr>>
cvars == <<hasFile, dur, vol, now, spc, globaldata, market, refreshed>>
svars == <<snapshot, allCoinsSlugMap, allCoins, stateCoins, npc>>
kvars == <<cacheDir, dirFiles, dirFiles0, stuck, pending, configPaths,
           configPaths0, cfgIdx, kpc, kop, cleanRet, resetRet>>
tvars == <<runs, tpc, ti, tclosed, tsentClosed, tfault>>
nvars == <<listCount, perPage, page, tableLen, viewHeight, oy, cy, navFault, navOp>>
vars == <<rvars, fvars, cvars, svars, kvars, tvars, nvars>>

\* chartcachekey and marketcachekey of NewCointop
Keys == {"globaldata", "market"}

(***************************************************************************)
(* Strings                                                                 *)
(***************************************************************************)
SP == " "

\* strings.ToLower on one character
LowerChar(c) ==
    CASE c = "A" -> "a" [] c = "B" -> "b" [] c = "C" -> "c" [] c = "D" -> "d"
      [] c = "E" -> "e" [] c = "F" -> "f" [] c = "G" -> "g" [] c = "H" -> "h"
      [] c = "I" -> "i" [] c = "J" -> "j" [] c = "K" -> "k" [] c = "L" -> "l"
      [] c = "M" -> "m" [] c = "N" -> "n" [] c = "O" -> "o" [] c = "P" -> "p"
      [] c = "Q" -> "q" [] c = "R" -> "r" [] c = "S" -> "s" [] c = "T" -> "t"
      [] c = "U" -> "u" [] c = "V" -> "v" [] c = "W" -> "w" [] c = "X" -> "x"
      [] c = "Y" -> "y" [] c = "Z" -> "z"
      [] OTHER -> c

IsAlnum(c) == c \notin {SP, "-"}

ToLower(s) == [n \in 1..Len(s) |-> LowerChar(s[n])]

RECURSIVE TrimLeft(_)
TrimLeft(s) == IF s # <<>> /\ Head(s) = SP THEN TrimLeft(Tail(s)) ELSE s

RECURSIVE TrimRight(_)
TrimRight(s) ==
    IF s # <<>> /\ s[Len(s)] = SP THEN TrimRight(SubSeq(s, 1, Len(s) - 1)) ELSE s

TrimSpace(s) == TrimRight(TrimLeft(s))

\* strings.Split(s, " "): one part more than there are spaces, empty parts kept
RECURSIVE SplitFrom(_, _)
SplitFrom(s, cur) ==
    IF s = <<>> THEN <<cur>>
    ELSE IF Head(s) = SP THEN <<cur>> \o SplitFrom(Tail(s), <<>>)
    ELSE SplitFrom(Tail(s), Append(cur, Head(s)))

Split(s) == SplitFrom(s, <<>>)

\* util.NameToSlug: lower-case, every non-alphanumeric character replaced by
\* the separator
NameToSlug(s) ==
    [n \in 1..Len(s) |-> IF IsAlnum(s[n]) THEN LowerChar(s[n]) ELSE "-"]

Range(s) == {s[n] : n \in 1..Len(s)}

(***************************************************************************)
(* The strings of the model                                                *)
(***************************************************************************)
sCoin        == <<"c","o","i","n">>
sBitcoin     == <<"B","i","t","c","o","i","n">>
sbitcoin     == <<"b","i","t","c","o","i","n">>
sBitcoinCash == <<"B","i","t","c","o","i","n"," ","C","a","s","h">>
sBitcoinGold == <<"B","i","t","c","o","i","n"," ","G","o","l","d">>
sSimpleCoin  == <<"S","i","m","p","l","e"," ","C","o","i","n">>
sSimplePad   == <<"S","i","m","p","l","e"," ">>
ssimple      == <<"s","i","m","p","l","e">>
sSimple      == <<"S","i","m","p","l","e">>
sBTC         == <<"B","T","C">>
sbtc         == <<"b","t","c">>
sBCH         == <<"B","C","H">>
sBTG         == <<"B","T","G">>
sSMP         == <<"S","M","P">>
sPAD         == <<"P","A","D">>
idBitcoin     == <<"b","i","t","c","o","i","n">>
idBitcoinCash == <<"b","i","t","c","o","i","n","-","c","a","s","h">>
idBitcoinGold == <<"b","i","t","c","o","i","n","-","g","o","l","d">>
idSimpleCoin  == <<"s","i","m","p","l","e","-","c","o","i","n">>
idSimple      == <<"s","i","m","p","l","e">>
idPad         == <<"p","a","d">>
sPadBitcoinUp == <<" ","B","I","T","C","O","I","N"," ">>
sUnknownCoin  == <<"D","o","g"," ","X">>

\* geckoTypes.CoinsListItem
eBitcoinCash == [ID |-> idBitcoinCash, Name |-> sBitcoinCash, Symbol |-> sBCH]
eBitcoin     == [ID |-> idBitcoin,     Name |-> sBitcoin,     Symbol |-> sBTC]
eSimpleCoin  == [ID |-> idSimpleCoin,  Name |-> sSimpleCoin,  Symbol |-> sSMP]
eBitcoinGold == [ID |-> idBitcoinGold, Name |-> sBitcoinGold, Symbol |-> sBTG]
eSimple      == [ID |-> idSimple,      Name |-> sSimple,      Symbol |-> sbtc]
ePad         == [ID |-> idPad,         Name |-> sSimplePad,   Symbol |-> sPAD]

\* the entries a provider catalog is drawn from: a deferred first word that
\* is another entry's name (Bitcoin Cash / Bitcoin), two entries sharing a
\* first word, a "coin" name whose first word is another entry's name
\* (Simple Coin / Simple), two entries sharing a lower-cased symbol
\* (BTC / btc), and a name with a trailing space
EntryPool == {eBitcoinCash, eBitcoin, eSimpleCoin, eBitcoinGold, eSimple, ePad}

\* what a caller may type
InputPool == {sbitcoin, sPadBitcoinUp, sBTC, ssimple, sUnknownCoin}

MaxCatalog == 3
MaxNames == 2

\* provider catalogs: canonical IDs are unique
Catalogs ==
    {c \in UNION {[1..n -> EntryPool] : n \in 0..MaxCatalog} :
        \A a, b \in 1..Len(c) : a # b => c[a].ID # c[b].ID}

NameLists == UNION {[1..n -> InputPool] : n \in 0..MaxNames}

(***************************************************************************)
(* The resolution table: sync.Map                                          *)
(***************************************************************************)
EmptyMap == [k \in {} |-> <<>>]

\* sync.Map.Load: reads, never writes
MapLoad(m, k) == [ok |-> k \in DOMAIN m, value |-> IF k \in DOMAIN m THEN m[k] ELSE <<>>]

\* sync.Map.Store
MapStore(m, k, v) == [x \in DOMAIN m \cup {k} |-> IF x = k THEN v ELSE m[x]]

\* faulty variant: the key is stored whether or not it exists
StoreOverwrite(m, k, v) == MapStore(m, k, v)

\* "_, exists := s.cacheMap.Load(key); if !exists { s.cacheMap.Store(key, id) }"
StoreIfAbsent(m, k, v) == IF MapLoad(m, k).ok THEN m ELSE MapStore(m, k, v)

RECURSIVE StoreKeys(_, _, _)
StoreKeys(m, keys, id) ==
    IF keys = <<>> THEN m
    ELSE StoreKeys(StoreIfAbsent(m, Head(keys), id), Tail(keys), id)

NameParts(item) == Split(ToLower(item.Name))

\* the three keys every item registers
ExplicitKeys(item) ==
    <<ToLower(item.Name), ToLower(item.Symbol), NameToSlug(item.Name)>>

\* faulty variant: the first word of every multi-word name is registered at once
ItemKeysEager(item) ==
    ExplicitKeys(item) \o
        (IF Len(NameParts(item)) > 1 THEN <<NameParts(item)[1]>> ELSE <<>>)

\* faulty variant: the "coin" alias is forgotten
ItemKeysNoCoin(item) == ExplicitKeys(item)

\* keys of one item in the catalog pass: the three explicit keys, and the
\* first word when the second word is "coin"
ItemKeys(item) ==
    ExplicitKeys(item) \o
        (IF Len(NameParts(item)) > 1 /\ NameParts(item)[2] = sCoin
         THEN <<NameParts(item)[1]>> ELSE <<>>)

\* what one item appends to firstWords
ItemFirstWords(item) ==
    IF Len(NameParts(item)) > 1 /\ NameParts(item)[2] # sCoin
    THEN <<<<NameParts(item)[1], item.ID>>>> ELSE <<>>

\* faulty variant: the lookup key is not trimmed
coinNameToIDNoTrim(name) ==
    IF MapLoad(cacheMap, ToLower(name)).ok
    THEN MapLoad(cacheMap, ToLower(name)).value
    ELSE NameToSlug(name)

\* Service.coinNameToID
coinNameToID(name) ==
    IF MapLoad(cacheMap, ToLower(TrimSpace(name))).ok
    THEN MapLoad(cacheMap, ToLower(TrimSpace(name))).value
    ELSE NameToSlug(name)

(***************************************************************************)
(* Currencies, provider answers and the normalization of a page            *)
(***************************************************************************)
sUsd == <<"U","s","d">>
susd == <<"u","s","d">>
sETH == <<"E","T","H">>

\* the currency arguments tried; BTC is one of the application's two crypto
\* currency codes
CurrencyPool == {sUsd, susd, sBTC, sbtc, <<>>}

\* a price counts thousandths: PriceUnit is the price 1
PriceUnit == 1000
PriceStep == 10

\* util.FormatPrice: the finest precision for the crypto currency codes and
\* for a price below 1, two decimals otherwise; the currency is compared
\* as it is passed
FormatPrice(price, convert) ==
    IF convert \in {sETH, sBTC} \/ price < PriceUnit
    THEN price
    ELSE ((price + PriceStep \div 2) \div PriceStep) * PriceStep

\* util.FormatID, FormatName, FormatSymbol, FormatRank, FormatSupply,
\* FormatMarketCap, FormatPercentChange, FormatVolume, FormatLastUpdated
PassThrough(v) == v

\* rows of the provider's market list, by market cap; a percent change is
\* <<>> when the provider omits it (a nil pointer), <<v>> otherwise
rawBitcoin ==
    [ID |-> idBitcoin, Name |-> sBitcoin, Symbol |-> sbtc, MarketCapRank |-> 1,
     CurrentPrice |-> 1234, CirculatingSupply |-> 19, TotalSupply |-> 21,
     MarketCap |-> 50, TotalVolume |-> 7, LastUpdated |-> 3,
     PriceChangePercentage1hInCurrency |-> <<2>>,
     PriceChangePercentage24hInCurrency |-> <<0 - 4>>,
     PriceChangePercentage7dInCurrency |-> <<>>,
     PriceChangePercentage30dInCurrency |-> <<6>>]
rawSimpleCoin ==
    [ID |-> idSimpleCoin, Name |-> sSimpleCoin, Symbol |-> ToLower(sSMP),
     MarketCapRank |-> 0, CurrentPrice |-> 999, CirculatingSupply |-> 8,
     TotalSupply |-> 0, MarketCap |-> 9, TotalVolume |-> 1, LastUpdated |-> 2,
     PriceChangePercentage1hInCurrency |-> <<>>,
     PriceChangePercentage24hInCurrency |-> <<>>,
     PriceChangePercentage7dInCurrency |-> <<>>,
     PriceChangePercentage30dInCurrency |-> <<>>]
rawBitcoinCash ==
    [ID |-> idBitcoinCash, Name |-> sBitcoinCash, Symbol |-> ToLower(sBCH),
     MarketCapRank |-> 3, CurrentPrice |-> 2500, CirculatingSupply |-> 0,
     TotalSupply |-> 0, MarketCap |-> 4, TotalVolume |-> 0, LastUpdated |-> 1,
     PriceChangePercentage1hInCurrency |-> <<0>>,
     PriceChangePercentage24hInCurrency |-> <<1>>,
     PriceChangePercentage7dInCurrency |-> <<1>>,
     PriceChangePercentage30dInCurrency |-> <<>>]
MarketRows == <<rawBitcoin, rawSimpleCoin, rawBitcoinCash>>

MaxList == 2

ProviderErrors == {"timeout", "unavailable"}

\* what the provider answers to one call: an error, or the call's payload
\* (a market list for CoinsMarket, price entries for SimplePrice)
Answer(e, l, p) == [err |-> e, list |-> l, prices |-> p]
NoAnswer == Answer("nil", <<>>, {})
Failures == {Answer(e, <<>>, {}) : e \in ProviderErrors}
MarketAnswers ==
    Failures \cup {Answer("nil", SubSeq(MarketRows, 1, n), {}) : n \in 0..MaxList}

\* an entry of the SimplePrice answer maps currencies to prices; it is the
\* set of its <<currency, price>> pairs
PriceEntries ==
    { {},
      {{<<susd, 1234>>}},
      {{<<sbtc, 999>>}},
      {{<<susd, 0>>, <<sbtc, 31>>}},
      {{<<susd, 1234>>}, {<<susd, 2506>>}} }
PriceAnswers == Failures \cup {Answer("nil", <<>>, p) : p \in PriceEntries}

\* the zero value of apitypes.Coin
ZeroCoin ==
    [ID |-> <<>>, Name |-> <<>>, Symbol |-> <<>>, Rank |-> 0,
     AvailableSupply |-> 0, TotalSupply |-> 0, MarketCap |-> 0, Price |-> 0,
     PercentChange1H |-> 0, PercentChange24H |-> 0, PercentChange7D |-> 0,
     PercentChange30D |-> 0, Volume24H |-> 0, LastUpdated |-> 0]

\* faulty variant: an absent percent change is marked with -1
PercentOrMarker(p) == IF p # <<>> THEN p[1] ELSE 0 - 1

\* "if item.PriceChangePercentage...InCurrency != nil { ... = *item... }"
PercentOrZero(p) == IF p # <<>> THEN p[1] ELSE 0

\* faulty variant: the total supply is passed as the provider gave it
TotalAsGiven(totalSupply, availableSupply) == totalSupply

\* "if totalSupply == 0 { totalSupply = availableSupply }"
TotalOrAvailable(totalSupply, availableSupply) ==
    IF totalSupply = 0 THEN availableSupply ELSE totalSupply

\* the apitypes.Coin appended for one item of the list
NormalizeItem(item, convert) ==
    [ID |-> PassThrough(item.ID),
     Name |-> PassThrough(item.Name),
     Symbol |-> PassThrough(item.Symbol),
     Rank |-> PassThrough(item.MarketCapRank),
     AvailableSupply |-> PassThrough(item.CirculatingSupply),
     TotalSupply |->
         PassThrough(TotalOrAvailable(item.TotalSupply, item.CirculatingSupply)),
     MarketCap |-> PassThrough(item.MarketCap),
     Price |-> FormatPrice(item.CurrentPrice, convert),
     PercentChange1H |->
         PassThrough(PercentOrZero(item.PriceChangePercentage1hInCurrency)),
     PercentChange24H |->
         PassThrough(PercentOrZero(item.PriceChangePercentage24hInCurrency)),
     PercentChange7D |->
         PassThrough(PercentOrZero(item.PriceChangePercentage7dInCurrency)),
     PercentChange30D |->
         PassThrough(PercentOrZero(item.PriceChangePercentage30dInCurrency)),
     Volume24H |-> PassThrough(item.TotalVolume),
     LastUpdated |-> PassThrough(item.LastUpdated)]

\* faulty variant: each record is put in front of the records before it
NormalizePagePrepending(list, convert) ==
    [n \in 1..Len(list) |-> NormalizeItem(list[Len(list) + 1 - n], convert)]

\* "for _, item := range *list { ret = append(ret, apitypes.Coin{...}) }"
NormalizePage(list, convert) ==
    [n \in 1..Len(list) |-> NormalizeItem(list[n], convert)]

\* faulty variant: the currency is sent as it was given
ConvertToAsGiven(convert) == IF convert = <<>> THEN susd ELSE convert

\* "convertTo := strings.ToLower(convert); if convertTo == "" {...}"
ConvertTo(convert) ==
    IF ToLower(convert) = <<>> THEN susd ELSE ToLower(convert)

\* faulty variant: the offset is passed as the page
PageOfOffset(offset) == offset

\* "page := offset + 1 // page starts at 1"
PageOf(offset) == offset + 1

\* faulty variant: the names are sent as they were given
ResolveAllSkipped(names) == names

\* "ids[i] = s.coinNameToID(name)" of getPaginatedCoinData
ResolveAll(names) == [n \in 1..Len(names) |-> coinNameToID(names[n])]

\* faulty variant: a failed fetch empties the table
TableClearedOnFailure(answer) ==
    IF answer.err # "nil" THEN EmptyMap ELSE cacheMap

\* Price and getPaginatedCoinData reach s.cacheMap through coinNameToID
\* alone, which only Loads: the table after the call is the table before
TableAfterFetch(answer) == cacheMap

\* faulty variant: the provider's error is dropped
PaginatedErrDropped(answer) == "nil"

\* "if err != nil { return nil, err }"
PaginatedErr(answer) == answer.err

\* no navigation call has completed
NoNav == [op |-> "none", arg |-> 0, ret |-> 0, before |-> 0]

NoOp ==
    [op |-> "none", names |-> <<>>, convert |-> <<>>, answer |-> NoAnswer,
     ids |-> <<>>, page |-> 0, vs |-> <<>>, reqs |-> 0,
     err |-> "nil", coins |-> <<>>, price |-> 0]

\* getPaginatedCoinData(convert, offset, names) when client.CoinsMarket
\* gives the answer: the request it issued, and what it returns
getPaginatedCoinData(convert, offset, names, answer) ==
    [NoOp EXCEPT !.names = names, !.convert = convert, !.answer = answer,
                 !.ids = ResolveAll(names), !.page = PageOf(offset),
                 !.vs = ConvertTo(convert), !.reqs = 1,
                 !.err = PaginatedErr(answer),
                 !.coins = IF PaginatedErr(answer) # "nil" THEN <<>>
                           ELSE NormalizePage(answer.list, convert)]

(***************************************************************************)
(* NewCoinGecko and cacheCoinsIDList                                       *)
(***************************************************************************)
InitResolver ==
    /\ listResp \in {"err", "nil", "list"}
    /\ catalog \in (IF listResp = "list" THEN Catalogs ELSE {<<>>})
    /\ bpc = "start"
    /\ idx = 1
    /\ firstWords = <<>>
    /\ cacheMap = EmptyMap
    /\ buildErr = "none"
    /\ returned = FALSE
    /\ lastOp = NoOp
    \* GetAllCoinData has not been called
    /\ provPages = 0
    /\ chCap = 0
    /\ pc = "idle"
    /\ i = 0
    /\ coins = <<>>
    /\ buf = <<>>
    /\ closed = 0
    /\ consumer = "active"
    /\ received = <<>>
    /\ requested = <<>>
    /\ emitted = <<>>
    /\ firstFail = 0
    /\ sleeps = 0
    /\ retErr = "none"
    \* NewCointop has not reached its cache seeding
    /\ hasFile = FALSE
    /\ dur = [k \in Keys |-> <<>>]
    /\ vol = [k \in Keys |-> <<>>]
    /\ now = 0
    /\ spc = "start"
    /\ globaldata = 0
    /\ market = 0
    /\ refreshed = {}
    \* NewCointop has not reached the restore of the coin list
    /\ snapshot = {}
    /\ allCoinsSlugMap = {}
    /\ allCoins = <<>>
    /\ stateCoins = <<>>
    /\ npc = "idle"
    \* neither Clean nor Reset has been called
    /\ cacheDir = "absent"
    /\ dirFiles = {}
    /\ dirFiles0 = {}
    /\ stuck = {}
    /\ pending = <<>>
    /\ configPaths = <<>>
    /\ configPaths0 = <<>>
    /\ cfgIdx = 1
    /\ kpc = "idle"
    /\ kop = "none"
    /\ cleanRet = "none"
    /\ resetRet = "none"
    \* GetAllCoinData has not been called a second time
    /\ runs = 0
    /\ tpc = [r \in 1..2 |-> "idle"]
    /\ ti = [r \in 1..2 |-> 0]
    /\ tclosed = 0
    /\ tsentClosed = 0
    /\ tfault = "none"
    \* the table has not been drawn
    /\ listCount = 0
    /\ perPage = 1
    /\ page = 0
    /\ tableLen = 0
    /\ viewHeight = 0
    /\ oy = 0
    /\ cy = 0
    /\ navFault = "none"
    /\ navOp = NoNav

\* "list, err := s.client.CoinsList()", and the two early returns
CoinsList ==
    /\ bpc = "start"
    /\ IF listResp = "list"
       THEN /\ bpc' = "pass1"
            /\ buildErr' = buildErr
       ELSE /\ bpc' = "built"
            /\ buildErr' = listResp
    /\ UNCHANGED <<listResp, catalog, idx, firstWords, cacheMap, returned, lastOp>>

\* one iteration of "for _, item := range *list"
Pass1Step ==
    /\ bpc = "pass1"
    /\ idx <= Len(catalog)
    /\ cacheMap' = StoreKeys(cacheMap, ItemKeys(catalog[idx]), catalog[idx].ID)
    /\ firstWords' = firstWords \o ItemFirstWords(catalog[idx])
    /\ idx' = idx + 1
    /\ UNCHANGED <<listResp, catalog, bpc, buildErr, returned, lastOp>>

\* the range loop over the list is exhausted
Pass1Done ==
    /\ bpc = "pass1"
    /\ idx > Len(catalog)
    /\ bpc' = "pass2"
    /\ idx' = 1
    /\ UNCHANGED <<listResp, catalog, firstWords, cacheMap, buildErr, returned, lastOp>>

\* one iteration of "for _, parts := range firstWords"
Pass2Step ==
    /\ bpc = "pass2"
    /\ idx <= Len(firstWords)
    /\ cacheMap' = StoreIfAbsent(cacheMap, firstWords[idx][1], firstWords[idx][2])
    /\ idx' = idx + 1
    /\ UNCHANGED <<listResp, catalog, bpc, firstWords, buildErr, returned, lastOp>>

\* "return nil" at the end of cacheCoinsIDList
Pass2Done ==
    /\ bpc = "pass2"
    /\ idx > Len(firstWords)
    /\ bpc' = "built"
    /\ buildErr' = "nil"
    /\ UNCHANGED <<listResp, catalog, idx, firstWords, cacheMap, returned, lastOp>>

\* faulty variant: "go svc.cacheCoinsIDList()", the Service is returned at once
BuildCompleteAsync == TRUE

\* "svc.cacheCoinsIDList(); return svc": the call is synchronous
BuildComplete == bpc = "built"

NewCoinGeckoReturn ==
    /\ ~returned
    /\ BuildComplete
    /\ returned' = TRUE
    /\ UNCHANGED <<listResp, catalog, bpc, idx, firstWords, cacheMap, buildErr, lastOp>>

(***************************************************************************)
(* The operations of the returned Service that read the table              *)
(***************************************************************************)
\* a lookup through the resolver alone
CoinNameToID(name) ==
    /\ returned
    /\ lastOp = NoOp
    /\ lastOp' = [NoOp EXCEPT !.op = "coinNameToID", !.names = <<name>>,
                              !.ids = <<coinNameToID(name)>>]
    /\ UNCHANGED <<listResp, catalog, bpc, idx, firstWords, cacheMap, buildErr, returned>>

CoinLink(name) ==
    /\ returned
    /\ lastOp = NoOp
    /\ lastOp' = [NoOp EXCEPT !.op = "CoinLink", !.names = <<name>>,
                              !.ids = <<coinNameToID(name)>>]
    /\ UNCHANGED <<listResp, catalog, bpc, idx, firstWords, cacheMap, buildErr, returned>>

\* "if _, err := s.client.Ping(); err != nil { return err }; return nil"
Ping(answer) ==
    /\ returned
    /\ lastOp = NoOp
    /\ lastOp' = [NoOp EXCEPT !.op = "Ping", !.answer = answer, !.reqs = 1,
                              !.err = answer.err]
    /\ UNCHANGED <<listResp, catalog, bpc, idx, firstWords, cacheMap, buildErr, returned>>

\* faulty variant: the currency is looked up as it was given
PriceCurrencyAsGiven(convert) == convert

\* "convert = strings.ToLower(convert)" of Price
PriceCurrency(convert) == ToLower(convert)

\* Price: client.SimplePrice fails, or the first entry of the answer that
\* carries the currency gives the price (the entries are ranged over in
\* map order, so any such entry can be the first), or there is none
Price(name, convert, answer) ==
    LET call == [NoOp EXCEPT !.op = "Price", !.names = <<name>>,
                             !.convert = convert, !.answer = answer,
                             !.ids = <<coinNameToID(name)>>,
                             !.vs = PriceCurrency(convert), !.reqs = 1]
        hits == {pr \in UNION answer.prices : pr[1] = PriceCurrency(convert)}
    IN /\ returned
       /\ lastOp = NoOp
       /\ \/ /\ answer.err # "nil"
             /\ lastOp' = [call EXCEPT !.err = answer.err]
          \/ /\ answer.err = "nil"
             /\ \E pr \in hits :
                   lastOp' = [call EXCEPT
                                 !.price = FormatPrice(pr[2], PriceCurrency(convert))]
          \/ /\ answer.err = "nil"
             /\ hits = {}
             /\ lastOp' = [call EXCEPT !.err = "ErrNotFound"]
       /\ cacheMap' = TableAfterFetch(answer)
       /\ UNCHANGED <<listResp, catalog, bpc, idx, firstWords, buildErr, returned>>

GetCoinGraphData(name, answer) ==
    /\ returned
    /\ lastOp = NoOp
    /\ lastOp' = [NoOp EXCEPT !.op = "GetCoinGraphData", !.names = <<name>>,
                              !.answer = answer, !.ids = <<coinNameToID(name)>>,
                              !.reqs = 1, !.err = answer.err]
    /\ UNCHANGED <<listResp, catalog, bpc, idx, firstWords, cacheMap, buildErr, returned>>

\* "ret := apitypes.Coin{}; if err != nil { return ret, err };
\* if len(coins) > 0 { ret = coins[0] }; return ret, nil"
FirstOrZero(r) ==
    IF r.err # "nil" THEN ZeroCoin
    ELSE IF Len(r.coins) > 0 THEN r.coins[1]
    ELSE ZeroCoin

\* GetCoinData: getPaginatedCoinData(convert, 0, []string{name}), then the
\* first record, or the zero record on an error or an empty list
GetCoinData(name, convert, answer) ==
    LET r == getPaginatedCoinData(convert, 0, <<name>>, answer)
    IN /\ returned
       /\ lastOp = NoOp
       /\ lastOp' = [r EXCEPT !.op = "GetCoinData", !.coins = <<FirstOrZero(r)>>]
       /\ cacheMap' = TableAfterFetch(answer)
       /\ UNCHANGED <<listResp, catalog, bpc, idx, firstWords, buildErr, returned>>

\* "return s.getPaginatedCoinData(convert, 0, names)"
GetCoinDataBatch(names, convert, answer) ==
    /\ returned
    /\ lastOp = NoOp
    /\ lastOp' = [getPaginatedCoinData(convert, 0, names, answer)
                      EXCEPT !.op = "GetCoinDataBatch"]
    /\ cacheMap' = TableAfterFetch(answer)
    /\ UNCHANGED <<listResp, catalog, bpc, idx, firstWords, buildErr, returned>>

\* the caller takes the result of the operation that completed
OpReturn ==
    /\ returned
    /\ lastOp # NoOp
    /\ lastOp' = NoOp
    /\ UNCHANGED <<listResp, catalog, bpc, idx, firstWords, cacheMap, buildErr, returned>>

\* the provider answers tried while the table varies: one failure and
\* one success per call, and a price answer with and without the currency
ResolverAnswers == {Answer("timeout", <<>>, {}), NoAnswer}
ResolverPrices ==
    ResolverAnswers \cup {Answer("nil", <<>>, {{<<susd, 1234>>}})}

NextResolver ==
    \/ CoinsList /\ UNCHANGED <<fvars, cvars, svars, kvars, tvars, nvars>>
    \/ Pass1Step /\ UNCHANGED <<fvars, cvars, svars, kvars, tvars, nvars>>
    \/ Pass1Done /\ UNCHANGED <<fvars, cvars, svars, kvars, tvars, nvars>>
    \/ Pass2Step /\ UNCHANGED <<fvars, cvars, svars, kvars, tvars, nvars>>
    \/ Pass2Done /\ UNCHANGED <<fvars, cvars, svars, kvars, tvars, nvars>>
    \/ NewCoinGeckoReturn /\ UNCHANGED <<fvars, cvars, svars, kvars, tvars, nvars>>
    \/ \E name \in InputPool : CoinNameToID(name) /\ UNCHANGED <<fvars, cvars, svars, kvars, tvars, nvars>>
    \/ \E name \in InputPool : CoinLink(name) /\ UNCHANGED <<fvars, cvars, svars, kvars, tvars, nvars>>
    \/ \E name \in InputPool, answer \in ResolverPrices :
           Price(name, sUsd, answer) /\ UNCHANGED <<fvars, cvars, svars, kvars, tvars, nvars>>
    \/ \E name \in InputPool, answer \in ResolverAnswers :
           GetCoinGraphData(name, answer) /\ UNCHANGED <<fvars, cvars, svars, kvars, tvars, nvars>>
    \/ \E name \in InputPool, answer \in ResolverAnswers :
           GetCoinData(name, sUsd, answer) /\ UNCHANGED <<fvars, cvars, svars, kvars, tvars, nvars>>
    \/ \E names \in NameLists, answer \in ResolverAnswers :
           GetCoinDataBatch(names, sUsd, answer) /\ UNCHANGED <<fvars, cvars, svars, kvars, tvars, nvars>>
    \/ OpReturn /\ UNCHANGED <<fvars, cvars, svars, kvars, tvars, nvars>>

SpecResolver == InitResolver /\ [][NextResolver]_vars

(***************************************************************************)
(* GetAllCoinData: the producer goroutine, the channel and its consumer    *)
(***************************************************************************)
maxPages == 10

MaxProvPages == 11
MaxChanCap == 1
PageFill == 2

\* the market list of the provider: page p holds PageFill items, ranked by
\* market cap, while p is one of the provider's pages, and nothing after
ProviderPage(p) ==
    IF p >= 1 /\ p <= provPages
    THEN [n \in 1..PageFill |->
             [ID |-> (p - 1) * PageFill + n, MarketCapRank |-> (p - 1) * PageFill + n]]
    ELSE <<>>

\* "for _, item := range *list { ret = append(ret, apitypes.Coin{...}) }"
ToCoins(list) ==
    [n \in 1..Len(list) |-> [ID |-> list[n].ID, Rank |-> list[n].MarketCapRank]]

\* faulty variant: one iteration too many
LoopCondInclusive(n) == n <= maxPages

\* "i < s.maxPages"
LoopCond(n) == n < maxPages

\* faulty variant: the close runs at the return and once more after the loop
CloseTwice(c) == c + 2

\* faulty variant: the error return leaves the channel open
CloseSkipped(c) == c

\* "defer close(ch)" running at a return of the goroutine
DeferredClose(c) == c + 1

\* faulty variant: the delay also precedes the first request
SleepBeforeEvery(n) == TRUE

\* "if i > 0 { time.Sleep(1 * time.Second) }"
SleepBefore(n) == n > 0

\* faulty variant: a failed request is issued again
AfterFetchErrRetry == "call"

\* "if err != nil { return }": the goroutine ends at the first failure
AfterFetchErr == "done"

\* faulty variant: GetAllCoinData waits for the goroutine and reports its failure
GetAllCoinDataReturnsFailure == "err"

\* "return nil", the last statement of GetAllCoinData
GetAllCoinDataReturn == "nil"

\* faulty variant: the send completes with one batch more than the capacity
BufferRoomExtra(n) == n <= chCap

\* "ch <- coins" completes without a receiver while the buffer has a free slot
BufferRoom(n) == n < chCap

\* faulty variant: an empty page ends the loop
AfterFetchStopOnEmpty(batch) == IF batch = <<>> THEN "done" ELSE "send"

\* "if err != nil { return }; ch <- coins": every fetched batch is sent
AfterFetchOk(batch) == "send"

InitFetch ==
    \* the Service as NewCoinGecko returned it when the catalog fetch failed
    /\ listResp = "err"
    /\ catalog = <<>>
    /\ bpc = "built"
    /\ idx = 1
    /\ firstWords = <<>>
    /\ cacheMap = EmptyMap
    /\ buildErr = "err"
    /\ returned = TRUE
    /\ lastOp = NoOp
    /\ provPages \in 0..MaxProvPages
    /\ chCap \in 0..MaxChanCap
    /\ pc = "idle"
    /\ i = 0
    /\ coins = <<>>
    /\ buf = <<>>
    /\ closed = 0
    /\ consumer = "active"
    /\ received = <<>>
    /\ requested = <<>>
    /\ emitted = <<>>
    /\ firstFail = 0
    /\ sleeps = 0
    /\ retErr = "none"
    \* NewCointop has not reached its cache seeding
    /\ hasFile = FALSE
    /\ dur = [k \in Keys |-> <<>>]
    /\ vol = [k \in Keys |-> <<>>]
    /\ now = 0
    /\ spc = "start"
    /\ globaldata = 0
    /\ market = 0
    /\ refreshed = {}
    \* NewCointop has not reached the restore of the coin list
    /\ snapshot = {}
    /\ allCoinsSlugMap = {}
    /\ allCoins = <<>>
    /\ stateCoins = <<>>
    /\ npc = "idle"
    \* neither Clean nor Reset has been called
    /\ cacheDir = "absent"
    /\ dirFiles = {}
    /\ dirFiles0 = {}
    /\ stuck = {}
    /\ pending = <<>>
    /\ configPaths = <<>>
    /\ configPaths0 = <<>>
    /\ cfgIdx = 1
    /\ kpc = "idle"
    /\ kop = "none"
    /\ cleanRet = "none"
    /\ resetRet = "none"
    \* GetAllCoinData has not been called a second time
    /\ runs = 0
    /\ tpc = [r \in 1..2 |-> "idle"]
    /\ ti = [r \in 1..2 |-> 0]
    /\ tclosed = 0
    /\ tsentClosed = 0
    /\ tfault = "none"
    \* the table has not been drawn
    /\ listCount = 0
    /\ perPage = 1
    /\ page = 0
    /\ tableLen = 0
    /\ viewHeight = 0
    /\ oy = 0
    /\ cy = 0
    /\ navFault = "none"
    /\ navOp = NoNav

\* "go func() {...}(); return nil"
GetAllCoinData ==
    /\ returned
    /\ pc = "idle"
    /\ pc' = "loop"
    /\ i' = 0
    /\ retErr' = GetAllCoinDataReturn
    /\ UNCHANGED <<provPages, chCap, coins, buf, closed, consumer, received,
                   requested, emitted, firstFail, sleeps>>

\* the loop test; when it fails the goroutine returns and the deferred close runs
LoopTest ==
    /\ pc = "loop"
    /\ IF LoopCond(i)
       THEN /\ pc' = (IF SleepBefore(i) THEN "sleep" ELSE "call")
            /\ closed' = closed
       ELSE /\ pc' = "done"
            /\ closed' = DeferredClose(closed)
    /\ UNCHANGED <<provPages, chCap, i, coins, buf, consumer, received,
                   requested, emitted, firstFail, sleeps, retErr>>

\* "time.Sleep(1 * time.Second)"
Sleep ==
    /\ pc = "sleep"
    /\ sleeps' = sleeps + 1
    /\ pc' = "call"
    /\ UNCHANGED <<provPages, chCap, i, coins, buf, closed, consumer, received,
                   requested, emitted, firstFail, retErr>>

\* getPaginatedCoinData(convert, i, []string{}) issues client.CoinsMarket
CallCoinsMarket ==
    /\ pc = "call"
    /\ requested' = Append(requested, PageOf(i))
    /\ pc' = "inflight"
    /\ UNCHANGED <<provPages, chCap, i, coins, buf, closed, consumer, received,
                   emitted, firstFail, sleeps, retErr>>

\* the request fails: "if err != nil { return }", then the deferred close
ResponseErr ==
    /\ pc = "inflight"
    /\ firstFail' = (IF firstFail = 0 THEN requested[Len(requested)] ELSE firstFail)
    /\ pc' = AfterFetchErr
    /\ closed' = (IF pc' = "done" THEN DeferredClose(closed) ELSE closed)
    /\ UNCHANGED <<provPages, chCap, i, coins, buf, consumer, received,
                   requested, emitted, sleeps, retErr>>

\* the request succeeds and the page is converted
ResponseOk ==
    /\ pc = "inflight"
    /\ coins' = ToCoins(ProviderPage(requested[Len(requested)]))
    /\ pc' = AfterFetchOk(coins')
    /\ closed' = (IF pc' = "done" THEN DeferredClose(closed) ELSE closed)
    /\ UNCHANGED <<provPages, chCap, i, buf, consumer, received,
                   requested, emitted, firstFail, sleeps, retErr>>

\* "ch <- coins" into a free slot of the buffer, then "i++"
SendBuffered ==
    /\ pc = "send"
    /\ BufferRoom(Len(buf))
    /\ buf' = Append(buf, coins)
    /\ emitted' = Append(emitted, coins)
    /\ i' = i + 1
    /\ pc' = "loop"
    /\ UNCHANGED <<provPages, chCap, coins, closed, consumer, received,
                   requested, firstFail, sleeps, retErr>>

\* "ch <- coins" on an unbuffered channel: handed to the waiting receiver
SendHandoff ==
    /\ pc = "send"
    /\ chCap = 0
    /\ consumer = "active"
    /\ received' = Append(received, coins)
    /\ emitted' = Append(emitted, coins)
    /\ i' = i + 1
    /\ pc' = "loop"
    /\ UNCHANGED <<provPages, chCap, coins, buf, closed, consumer,
                   requested, firstFail, sleeps, retErr>>

ProducerStep ==
    \/ LoopTest
    \/ Sleep
    \/ CallCoinsMarket
    \/ ResponseErr
    \/ ResponseOk
    \/ SendBuffered
    \/ SendHandoff

\* the consumer takes a batch out of the buffer
Receive ==
    /\ consumer = "active"
    /\ buf # <<>>
    /\ received' = Append(received, Head(buf))
    /\ buf' = Tail(buf)
    /\ UNCHANGED <<provPages, chCap, pc, i, coins, closed, consumer,
                   requested, emitted, firstFail, sleeps, retErr>>

\* the consumer's receive finds the channel closed and drained
SeeClose ==
    /\ consumer = "active"
    /\ closed > 0
    /\ buf = <<>>
    /\ consumer' = "done"
    /\ UNCHANGED <<provPages, chCap, pc, i, coins, buf, closed, received,
                   requested, emitted, firstFail, sleeps, retErr>>

\* the consumer stops receiving while the producer is still running
Abandon ==
    /\ consumer = "active"
    /\ pc \notin {"idle", "done"}
    /\ consumer' = "abandoned"
    /\ UNCHANGED <<provPages, chCap, pc, i, coins, buf, closed, received,
                   requested, emitted, firstFail, sleeps, retErr>>

NextFetch ==
    \/ GetAllCoinData /\ UNCHANGED <<rvars, cvars, svars, kvars, tvars, nvars>>
    \/ LoopTest /\ UNCHANGED <<rvars, cvars, svars, kvars, tvars, nvars>>
    \/ Sleep /\ UNCHANGED <<rvars, cvars, svars, kvars, tvars, nvars>>
    \/ CallCoinsMarket /\ UNCHANGED <<rvars, cvars, svars, kvars, tvars, nvars>>
    \/ ResponseErr /\ UNCHANGED <<rvars, cvars, svars, kvars, tvars, nvars>>
    \/ ResponseOk /\ UNCHANGED <<rvars, cvars, svars, kvars, tvars, nvars>>
    \/ SendBuffered /\ UNCHANGED <<rvars, cvars, svars, kvars, tvars, nvars>>
    \/ SendHandoff /\ UNCHANGED <<rvars, cvars, svars, kvars, tvars, nvars>>
    \/ Receive /\ UNCHANGED <<rvars, cvars, svars, kvars, tvars, nvars>>
    \/ SeeClose /\ UNCHANGED <<rvars, cvars, svars, kvars, tvars, nvars>>
    \/ Abandon /\ UNCHANGED <<rvars, cvars, svars, kvars, tvars, nvars>>

SpecFetch == InitFetch /\ [][NextFetch]_vars

\* The Go scheduler runs a goroutine that can take a step, and a provider
\* call returns: the producer is weakly fair.  A consumer that keeps
\* receiving is weakly fair too; it may still abandon the channel.
ProducerRun == ProducerStep /\ UNCHANGED <<rvars, cvars, svars, kvars, tvars, nvars>>
ConsumerRun == (Receive \/ SeeClose) /\ UNCHANGED <<rvars, cvars, svars, kvars, tvars, nvars>>

FairSpecFetch ==
    /\ InitFetch
    /\ [][NextFetch]_vars
    /\ WF_vars(ProducerRun)
    /\ WF_vars(ConsumerRun)

(***************************************************************************)
(* NewCointop seeding the volatile tier from the durable tier, and the two *)
(* tiers afterwards                                                        *)
(***************************************************************************)
MaxVal == 2
MaxTime == 15
TickStep == 5

\* "10*time.Second" of the two ct.cache.Set calls of NewCointop
StartupTTL == 10

\* the TTL a refresh gives its volatile entry
RefreshTTL == 10

\* the durable tier's Get: the value of a present key, no expiry
DurableGet(k) ==
    IF hasFile /\ dur[k] # <<>>
    THEN [found |-> TRUE, value |-> dur[k][1]]
    ELSE [found |-> FALSE, value |-> 0]

\* the TTL of the volatile entry of k has elapsed
Expired(k) == vol[k] # <<>> /\ now >= vol[k][1].expires

\* the volatile tier's Get, ct.cache.Get: the value of an entry that has
\* not expired; ct.cache is built by cache.New alone and holds no
\* reference to the durable tier
VolatileGet(k) ==
    IF vol[k] # <<>> /\ ~Expired(k)
    THEN [found |-> TRUE, value |-> vol[k][1].value]
    ELSE [found |-> FALSE, value |-> 0]

\* the volatile tier's Set
VolatileSet(k, v, ttl) ==
    [vol EXCEPT ![k] = <<[value |-> v, expires |-> now + ttl]>>]

\* faulty variant: the loaded value is not used, the zero value is kept
LoadSkipped(k) == 0

\* "var v T; if ct.filecache != nil { ct.filecache.Get(key, &v) }": v keeps
\* its zero value when there is no durable tier or it has no such key
LoadDurable(k) == IF DurableGet(k).found THEN DurableGet(k).value ELSE 0

InitCache ==
    \* the Service as NewCoinGecko returned it when the catalog fetch failed
    /\ listResp = "err"
    /\ catalog = <<>>
    /\ bpc = "built"
    /\ idx = 1
    /\ firstWords = <<>>
    /\ cacheMap = EmptyMap
    /\ buildErr = "err"
    /\ returned = TRUE
    /\ lastOp = NoOp
    \* GetAllCoinData has not been called
    /\ provPages = 0
    /\ chCap = 0
    /\ pc = "idle"
    /\ i = 0
    /\ coins = <<>>
    /\ buf = <<>>
    /\ closed = 0
    /\ consumer = "active"
    /\ received = <<>>
    /\ requested = <<>>
    /\ emitted = <<>>
    /\ firstFail = 0
    /\ sleeps = 0
    /\ retErr = "none"
    \* NewCointop is about to seed the volatile tier; the durable tier is
    \* what an earlier run left, or there is none (--no-cache, or the cache
    \* directory could not be made)
    /\ hasFile \in BOOLEAN
    /\ dur \in [Keys -> {<<>>} \cup {<<v>> : v \in 1..MaxVal}]
    /\ hasFile = FALSE => dur = [k \in Keys |-> <<>>]
    /\ vol = [k \in Keys |-> <<>>]
    /\ now = 0
    /\ spc = "load_chart"
    /\ globaldata = 0
    /\ market = 0
    /\ refreshed = {}
    \* NewCointop has not reached the restore of the coin list
    /\ snapshot = {}
    /\ allCoinsSlugMap = {}
    /\ allCoins = <<>>
    /\ stateCoins = <<>>
    /\ npc = "idle"
    \* neither Clean nor Reset has been called
    /\ cacheDir = "absent"
    /\ dirFiles = {}
    /\ dirFiles0 = {}
    /\ stuck = {}
    /\ pending = <<>>
    /\ configPaths = <<>>
    /\ configPaths0 = <<>>
    /\ cfgIdx = 1
    /\ kpc = "idle"
    /\ kop = "none"
    /\ cleanRet = "none"
    /\ resetRet = "none"
    \* GetAllCoinData has not been called a second time
    /\ runs = 0
    /\ tpc = [r \in 1..2 |-> "idle"]
    /\ ti = [r \in 1..2 |-> 0]
    /\ tclosed = 0
    /\ tsentClosed = 0
    /\ tfault = "none"
    \* the table has not been drawn
    /\ listCount = 0
    /\ perPage = 1
    /\ page = 0
    /\ tableLen = 0
    /\ viewHeight = 0
    /\ oy = 0
    /\ cy = 0
    /\ navFault = "none"
    /\ navOp = NoNav

\* "ct.filecache.Get(chartcachekey, &globaldata)"
LoadChart ==
    /\ spc = "load_chart"
    /\ globaldata' = LoadDurable("globaldata")
    /\ spc' = "set_chart"
    /\ UNCHANGED <<hasFile, dur, vol, now, market, refreshed>>

\* "ct.cache.Set(chartcachekey, globaldata, 10*time.Second)"
SetChart ==
    /\ spc = "set_chart"
    /\ vol' = VolatileSet("globaldata", globaldata, StartupTTL)
    /\ spc' = "load_market"
    /\ UNCHANGED <<hasFile, dur, now, globaldata, market, refreshed>>

\* "ct.filecache.Get(marketcachekey, &market)"
LoadMarket ==
    /\ spc = "load_market"
    /\ market' = LoadDurable("market")
    /\ spc' = "set_market"
    /\ UNCHANGED <<hasFile, dur, vol, now, globaldata, refreshed>>

\* "ct.cache.Set(marketcachekey, market, 10*time.Second)"
SetMarket ==
    /\ spc = "set_market"
    /\ vol' = VolatileSet("market", market, StartupTTL)
    /\ spc' = "running"
    /\ UNCHANGED <<hasFile, dur, now, globaldata, market, refreshed>>

\* a successful fresh fetch of k writes both tiers
Refresh(k, v) ==
    /\ spc = "running"
    /\ vol' = VolatileSet(k, v, RefreshTTL)
    /\ dur' = (IF hasFile THEN [dur EXCEPT ![k] = <<v>>] ELSE dur)
    /\ refreshed' = refreshed \cup {k}
    /\ UNCHANGED <<hasFile, now, spc, globaldata, market>>

\* time passes
Tick ==
    /\ now + TickStep <= MaxTime
    /\ now' = now + TickStep
    /\ UNCHANGED <<hasFile, dur, vol, spc, globaldata, market, refreshed>>

NextCache ==
    \/ LoadChart /\ UNCHANGED <<rvars, fvars, svars, kvars, tvars, nvars>>
    \/ SetChart /\ UNCHANGED <<rvars, fvars, svars, kvars, tvars, nvars>>
    \/ LoadMarket /\ UNCHANGED <<rvars, fvars, svars, kvars, tvars, nvars>>
    \/ SetMarket /\ UNCHANGED <<rvars, fvars, svars, kvars, tvars, nvars>>
    \/ \E k \in Keys, v \in 1..MaxVal : Refresh(k, v) /\ UNCHANGED <<rvars, fvars, svars, kvars, tvars, nvars>>
    \/ Tick /\ UNCHANGED <<rvars, fvars, svars, kvars, tvars, nvars>>

SpecCache == InitCache /\ [][NextCache]_vars

(***************************************************************************)
(* The fetch operations of a Service whose table is built, with every      *)
(* currency and every provider answer                                      *)
(***************************************************************************)
RECURSIVE TableAfterPass1(_, _)
\* the table after "for _, item := range *list" over the list
TableAfterPass1(m, list) ==
    IF list = <<>> THEN m
    ELSE TableAfterPass1(StoreKeys(m, ItemKeys(Head(list)), Head(list).ID),
                         Tail(list))

RECURSIVE FirstWordsOf(_)
\* the firstWords collected over the list
FirstWordsOf(list) ==
    IF list = <<>> THEN <<>>
    ELSE ItemFirstWords(Head(list)) \o FirstWordsOf(Tail(list))

RECURSIVE TableAfterPass2(_, _)
\* the table after "for _, parts := range firstWords"
TableAfterPass2(m, fw) ==
    IF fw = <<>> THEN m
    ELSE TableAfterPass2(StoreIfAbsent(m, Head(fw)[1], Head(fw)[2]), Tail(fw))

\* the table cacheCoinsIDList leaves for a list
BuiltTable(list) ==
    TableAfterPass2(TableAfterPass1(EmptyMap, list), FirstWordsOf(list))

\* the catalog of the Service whose fetch operations are exercised
ServedCatalog == <<eBitcoinCash, eBitcoin, eSimpleCoin>>

InitTargeted ==
    \* the Service as NewCoinGecko returned it, the catalog fetched or not
    /\ listResp \in {"err", "list"}
    /\ catalog = (IF listResp = "list" THEN ServedCatalog ELSE <<>>)
    /\ bpc = "built"
    /\ firstWords = FirstWordsOf(catalog)
    /\ idx = (IF listResp = "list" THEN Len(firstWords) + 1 ELSE 1)
    /\ cacheMap = BuiltTable(catalog)
    /\ buildErr = (IF listResp = "list" THEN "nil" ELSE "err")
    /\ returned = TRUE
    /\ lastOp = NoOp
    \* GetAllCoinData has not been called
    /\ provPages = 0
    /\ chCap = 0
    /\ pc = "idle"
    /\ i = 0
    /\ coins = <<>>
    /\ buf = <<>>
    /\ closed = 0
    /\ consumer = "active"
    /\ received = <<>>
    /\ requested = <<>>
    /\ emitted = <<>>
    /\ firstFail = 0
    /\ sleeps = 0
    /\ retErr = "none"
    \* NewCointop has just seeded the volatile tier, from a durable tier
    \* that holds both keys or from none
    /\ hasFile \in BOOLEAN
    /\ dur = [k \in Keys |-> IF hasFile THEN <<1>> ELSE <<>>]
    /\ globaldata = LoadDurable("globaldata")
    /\ market = LoadDurable("market")
    /\ vol = [k \in Keys |->
                 <<[value |-> LoadDurable(k), expires |-> 0 + StartupTTL]>>]
    /\ now = 0
    /\ spc = "running"
    /\ refreshed = {}
    \* NewCointop has not reached the restore of the coin list
    /\ snapshot = {}
    /\ allCoinsSlugMap = {}
    /\ allCoins = <<>>
    /\ stateCoins = <<>>
    /\ npc = "idle"
    \* neither Clean nor Reset has been called
    /\ cacheDir = "absent"
    /\ dirFiles = {}
    /\ dirFiles0 = {}
    /\ stuck = {}
    /\ pending = <<>>
    /\ configPaths = <<>>
    /\ configPaths0 = <<>>
    /\ cfgIdx = 1
    /\ kpc = "idle"
    /\ kop = "none"
    /\ cleanRet = "none"
    /\ resetRet = "none"
    \* GetAllCoinData has not been called a second time
    /\ runs = 0
    /\ tpc = [r \in 1..2 |-> "idle"]
    /\ ti = [r \in 1..2 |-> 0]
    /\ tclosed = 0
    /\ tsentClosed = 0
    /\ tfault = "none"
    \* the table has not been drawn
    /\ listCount = 0
    /\ perPage = 1
    /\ page = 0
    /\ tableLen = 0
    /\ viewHeight = 0
    /\ oy = 0
    /\ cy = 0
    /\ navFault = "none"
    /\ navOp = NoNav

\* "coins, err := s.getPaginatedCoinData(convert, i, []string{})": the page
\* request of one iteration of the goroutine of GetAllCoinData
PageRequest(convert, offset, answer) ==
    /\ returned
    /\ lastOp = NoOp
    /\ LoopCond(offset)
    /\ lastOp' = [getPaginatedCoinData(convert, offset, <<>>, answer)
                      EXCEPT !.op = "getPaginatedCoinData"]
    /\ cacheMap' = TableAfterFetch(answer)
    /\ UNCHANGED <<listResp, catalog, bpc, idx, firstWords, buildErr, returned>>

NextTargeted ==
    \/ \E answer \in Failures \cup {NoAnswer} : Ping(answer) /\ UNCHANGED <<fvars, cvars, svars, kvars, tvars, nvars>>
    \/ \E name \in InputPool, convert \in CurrencyPool, answer \in PriceAnswers :
           Price(name, convert, answer) /\ UNCHANGED <<fvars, cvars, svars, kvars, tvars, nvars>>
    \/ \E name \in InputPool, convert \in CurrencyPool, answer \in MarketAnswers :
           GetCoinData(name, convert, answer) /\ UNCHANGED <<fvars, cvars, svars, kvars, tvars, nvars>>
    \/ \E names \in NameLists, convert \in CurrencyPool, answer \in MarketAnswers :
           GetCoinDataBatch(names, convert, answer) /\ UNCHANGED <<fvars, cvars, svars, kvars, tvars, nvars>>
    \/ \E convert \in CurrencyPool, offset \in 0..maxPages, answer \in MarketAnswers :
           PageRequest(convert, offset, answer) /\ UNCHANGED <<fvars, cvars, svars, kvars, tvars, nvars>>
    \/ OpReturn /\ UNCHANGED <<fvars, cvars, svars, kvars, tvars, nvars>>

SpecTargeted == InitTargeted /\ [][NextTargeted]_vars

(***************************************************************************)
(* Pipeline claims                                                         *)
(***************************************************************************)
\* the batch of provider page k
BatchOfPage(k) == ToCoins(ProviderPage(k))

\* C1: when the request for page N is the first to fail, exactly N-1
\* batches have been emitted, the k-th being the batch of page k, the sink
\* is closed once, the goroutine has ended, and page N is the last page
\* requested; the consumer holds a prefix of those batches.
C1_PartialFailure ==
    firstFail > 0 =>
        /\ Len(emitted) = firstFail - 1
        /\ \A k \in 1..Len(emitted) : emitted[k] = BatchOfPage(k)
        /\ closed = 1
        /\ pc = "done"
        /\ Len(requested) = firstFail
        /\ Len(received) <= Len(emitted)
        /\ \A k \in 1..Len(received) : received[k] = emitted[k]

\* C1 witness: page 3 of a 5-page provider failed, two batches of two
\* records each were received, and the consumer saw the close
C1_Witness ==
    /\ provPages = 5
    /\ firstFail = 3
    /\ Len(received) = 2
    /\ Len(received[2]) = PageFill
    /\ consumer = "done"

\* C2: no run issues more than maxPages page requests; against a provider
\* that never fails and has more pages than maxPages, a finished run has
\* issued exactly maxPages requests and emitted exactly maxPages batches,
\* none of them empty, and the sink is closed.
C2_PaginationCeiling ==
    /\ Len(requested) <= maxPages
    /\ Len(emitted) <= maxPages
    /\ (pc = "done" /\ firstFail = 0 /\ provPages > maxPages) =>
          /\ Len(requested) = maxPages
          /\ Len(emitted) = maxPages
          /\ \A k \in 1..maxPages : Len(emitted[k]) = PageFill
          /\ closed = 1

\* C2 witness: a run over a provider with more than maxPages pages finished
\* without a failure and the consumer received maxPages batches
C2_Witness ==
    /\ provPages > maxPages
    /\ firstFail = 0
    /\ pc = "done"
    /\ consumer = "done"
    /\ Len(received) = maxPages

\* C3 as stated: against a provider that never fails and holds P < maxPages
\* pages, no page is requested after the first empty one, page P+1.
C3_StopsWhenExhausted ==
    (firstFail = 0 /\ provPages < maxPages) => Len(requested) <= provPages + 1

\* C3 as amended: against a provider that never fails and holds P < maxPages
\* pages, a finished run has requested maxPages pages and emitted maxPages
\* batches, those after page P empty, before the sink is closed.
C3_EmptyPagesUpToCeiling ==
    (pc = "done" /\ firstFail = 0 /\ provPages < maxPages) =>
        /\ requested = [k \in 1..maxPages |-> k]
        /\ Len(emitted) = maxPages
        /\ \A k \in 1..maxPages :
              emitted[k] = (IF k <= provPages THEN BatchOfPage(k) ELSE <<>>)
        /\ closed = 1

\* C3 witness: a 2-page provider, a finished run, maxPages batches received
\* of which the third is empty
C3_Witness ==
    /\ provPages = 2
    /\ firstFail = 0
    /\ pc = "done"
    /\ Len(received) = maxPages
    /\ received[2] # <<>>
    /\ received[3] = <<>>

\* C4: once the consumer has abandoned the stream, a producer that has not
\* ended can still take a step (it is never stuck on the hand-off).
C4_ProducerNotStuckAfterAbandon ==
    (consumer = "abandoned" /\ pc \notin {"idle", "done"}) => ENABLED ProducerStep

\* C10: the pages requested in a run are 1, 2, 3, ... in order, and the
\* k-th batch received is the batch of page k.
C10_PageOrdering ==
    /\ \A k \in 1..Len(requested) : requested[k] = k
    /\ \A k \in 1..Len(received) : received[k] = BatchOfPage(k)
    /\ \A k \in 1..Len(emitted) : emitted[k] = BatchOfPage(k)

\* C10 witness: three pages were requested and the three batches received
\* are those of pages 1, 2 and 3, all different
C10_Witness ==
    /\ requested = <<1, 2, 3>>
    /\ Len(received) = 3
    /\ received[1] # received[2]
    /\ received[2] # received[3]
    /\ received[3] # <<>>

\* page requests of the run that have not returned yet: those issued, less
\* the batches sent, the batch held for sending and the failed request
InFlight ==
    Len(requested) - Len(emitted) - (IF pc = "send" THEN 1 ELSE 0)
        - (IF firstFail > 0 THEN 1 ELSE 0)

\* C11: when the request number k+1 of a run is issued exactly k delays
\* have elapsed in that run (none before the first request, one between
\* two successive requests) and no other request of the run is in flight;
\* at most one request is in flight at any time.
C11_InterPagePacing ==
    [][/\ requested' # requested =>
            /\ Len(requested') = Len(requested) + 1
            /\ sleeps = Len(requested)
            /\ InFlight = 0
       /\ sleeps' \in {Len(requested'), Len(requested') - 1} \/ requested' = <<>>
       /\ InFlight' \in {0, 1}
       /\ (InFlight' = 1) <=> (pc' = "inflight")]_vars

\* C11 witness: the third request is in flight after two delays
C11_Witness ==
    /\ pc = "inflight"
    /\ Len(requested) = 3
    /\ sleeps = 2

\* C12: no page is requested twice in one run, and once a request has
\* failed the run issues no further request.
C12_NoRetry ==
    [][/\ \A a, b \in 1..Len(requested') :
              a # b => requested'[a] # requested'[b]
       /\ firstFail > 0 => requested' = requested]_vars

\* C12 witness: page 2 failed, the run ended with two requests issued and
\* the consumer saw the close
C12_Witness ==
    /\ firstFail = 2
    /\ Len(requested) = 2
    /\ pc = "done"
    /\ consumer = "done"

\* C13: GetAllCoinData returns nil whatever happens later; everything the
\* sink carries is the batch of a page that was fetched, the failed page
\* leaves nothing in it; when page 1 fails the sink is closed with no
\* batch sent or received, and the caller still holds the nil error.
C13_SilentTruncation ==
    /\ retErr \in {"none", "nil"}
    /\ pc # "idle" => retErr = "nil"
    /\ \A k \in 1..Len(emitted) : emitted[k] = BatchOfPage(k)
    /\ \A k \in 1..Len(received) : received[k] = BatchOfPage(k)
    /\ firstFail > 0 => Len(emitted) < firstFail
    /\ firstFail = 1 =>
          /\ emitted = <<>>
          /\ received = <<>>
          /\ buf = <<>>
          /\ closed = 1
          /\ retErr = "nil"

\* C13 witness: page 1 of a provider that holds data failed and the
\* consumer saw the close without a batch
C13_Witness ==
    /\ provPages > 0
    /\ firstFail = 1
    /\ consumer = "done"
    /\ received = <<>>
    /\ retErr = "nil"

\* batches fetched that the consumer has not received yet
Waiting == Len(buf) + (IF pc = "send" THEN 1 ELSE 0)

\* C14: the request for page k+1 is issued only after the batch of page k
\* has been sent on the sink; on an unbuffered sink it has then been
\* received, and at most one fetched batch waits for the consumer (with a
\* buffer, at most its capacity and one).
C14_BoundedLookahead ==
    /\ Len(requested) <= Len(emitted) + 1
    /\ Waiting <= chCap + 1
    /\ chCap = 0 =>
          /\ Len(requested) <= Len(received) + 1
          /\ Waiting <= 1

\* C14 witness: on an unbuffered sink the batch of page 3 waits for the
\* consumer, which received two batches, and page 4 is not requested
C14_Witness ==
    /\ chCap = 0
    /\ pc = "send"
    /\ Len(requested) = 3
    /\ Len(received) = 2
    /\ Waiting = 1

\* C15: the sink is never closed twice; it is closed exactly when the
\* goroutine has ended; nothing is sent and no close runs after the close;
\* and under fairness a started run ends unless the consumer abandoned
\* the sink.
C15_FiniteStreamClosedOnce ==
    /\ [](closed <= 1 /\ ((pc = "done") <=> (closed = 1)))
    /\ [][closed > 0 => (emitted' = emitted /\ closed' = closed)]_vars
    /\ ((pc # "idle") ~> (pc = "done" \/ consumer = "abandoned"))

\* C15 witness: a run over a 3-page provider ended without a failure, the
\* sink is closed once and the consumer received every batch sent
C15_Witness ==
    /\ provPages = 3
    /\ firstFail = 0
    /\ pc = "done"
    /\ closed = 1
    /\ consumer = "done"
    /\ received = emitted
    /\ Len(emitted) = maxPages

(***************************************************************************)
(* Resolver claims                                                         *)
(***************************************************************************)
\* the keys the claims call explicit: lower-cased name, lower-cased symbol, slug
NamedKeys(item) == {ToLower(item.Name), ToLower(item.Symbol), NameToSlug(item.Name)}

\* the name has at least two words and the second is "coin"
IsCoinName(item) ==
    LET parts == Split(ToLower(item.Name)) IN Len(parts) >= 2 /\ parts[2] = sCoin

\* the name has at least two words and the second is not "coin"
HasDeferredWord(item) ==
    LET parts == Split(ToLower(item.Name)) IN Len(parts) >= 2 /\ parts[2] # sCoin

FirstWord(item) == Split(ToLower(item.Name))[1]

\* the keys an entry claims in its own step of the catalog pass
ClaimedInPass(item) ==
    NamedKeys(item) \cup (IF IsCoinName(item) THEN {FirstWord(item)} ELSE {})

\* the earliest entry among the first n that claims k in the catalog pass
EarliestClaimant(k, n) ==
    CHOOSE j \in 1..n :
        /\ k \in ClaimedInPass(catalog[j])
        /\ \A h \in 1..(j - 1) : k \notin ClaimedInPass(catalog[h])

\* C5: for every catalog entry e and every key k among lower-cased name,
\* lower-cased symbol and slug of the name of e, after the build Resolve(k)
\* is the ID of the earliest entry, up to e, that registered k.
C5_FirstSeenPrecedence ==
    returned =>
        \A n \in 1..Len(catalog) : \A k \in NamedKeys(catalog[n]) :
            coinNameToID(k) = catalog[EarliestClaimant(k, n)].ID

\* C6: explicit keys beat deferred first-word aliases in either catalog
\* order: when k is a lower-cased name, lower-cased symbol or slug of entry b
\* and only the deferred first word of entry a, Resolve(k) after the build is
\* not a's ID; for ["Bitcoin Cash" -> A, "Bitcoin" -> B], Resolve("bitcoin")
\* is B.
C6_ExplicitBeatsFirstWord ==
    returned =>
        /\ \A a \in 1..Len(catalog) :
              HasDeferredWord(catalog[a]) =>
                  LET k == FirstWord(catalog[a]) IN
                      (/\ k \notin NamedKeys(catalog[a])
                       /\ \E b \in 1..Len(catalog) :
                              a # b /\ k \in NamedKeys(catalog[b]))
                      => coinNameToID(k) # catalog[a].ID
        /\ catalog = <<eBitcoinCash, eBitcoin>> => coinNameToID(sbitcoin) = idBitcoin

\* C6 witness: the build of ["Bitcoin Cash", "Bitcoin"] has finished and
\* "bitcoin" resolves to the second entry
C6_Witness ==
    /\ returned
    /\ catalog = <<eBitcoinCash, eBitcoin>>
    /\ <<sbitcoin, idBitcoinCash>> \in Range(firstWords)
    /\ coinNameToID(sbitcoin) = idBitcoin

\* C7: the first word of a name whose second word is "coin" is a key as soon
\* as that entry's step of the catalog pass is over, mapped to the ID of the
\* earliest entry that claimed it, and Resolve(first word) returns that ID
\* from then on.
C7_CoinAliasImmediate ==
    \A n \in 1..Len(catalog) :
        (/\ IsCoinName(catalog[n])
         /\ \/ bpc = "pass1" /\ idx > n
            \/ bpc \in {"pass2", "built"})
        => /\ FirstWord(catalog[n]) \in DOMAIN cacheMap
           /\ coinNameToID(FirstWord(catalog[n]))
                = catalog[EarliestClaimant(FirstWord(catalog[n]), n)].ID

\* C7 witness: "Simple Coin" was just processed, the pass is still running,
\* and "simple" already resolves to simple-coin
C7_Witness ==
    /\ bpc = "pass1"
    /\ idx = 2
    /\ Len(catalog) >= 2
    /\ catalog[1] = eSimpleCoin
    /\ coinNameToID(ssimple) = idSimpleCoin

\* C8: Resolve returns the ID stored under the lower-cased, trimmed input
\* when that key exists and the slug of the input otherwise, with no error,
\* for every table including the empty one, and leaves the table as it was.
C8_ResolveNeverFails ==
    [][lastOp'.op = "coinNameToID" /\ lastOp.op = "none" =>
          LET name == lastOp'.names[1]
              key == ToLower(TrimSpace(name))
          IN /\ lastOp'.err = "nil"
             /\ lastOp'.ids = <<IF key \in DOMAIN cacheMap
                                THEN cacheMap[key] ELSE NameToSlug(name)>>
             /\ cacheMap' = cacheMap]_vars

\* C8 witness: the catalog fetch failed, the table is empty, and a padded
\* upper-case input came back as its slug
C8_Witness ==
    /\ listResp = "err"
    /\ cacheMap = EmptyMap
    /\ lastOp.op = "coinNameToID"
    /\ lastOp.names = <<sPadBitcoinUp>>
    /\ lastOp.ids = <<NameToSlug(sPadBitcoinUp)>>

\* C9: the table changes only in the two passes of the build, before the
\* Service is returned; the Service is returned only once the build is
\* over; no step after the return changes the table.
C9_PublishBarrier ==
    [][/\ cacheMap' # cacheMap => ~returned /\ bpc \in {"pass1", "pass2"}
       /\ returned' => bpc' = "built" /\ bpc = "built"
       /\ returned => cacheMap' = cacheMap]_vars

\* C9 witness: a reader ran on a table the build filled and published
C9_Witness ==
    /\ returned
    /\ bpc = "built"
    /\ Cardinality(DOMAIN cacheMap) > 3
    /\ lastOp.op = "GetCoinDataBatch"
    /\ Len(lastOp.ids) = 2

\* C16: a targeted fetch sends an identifier list as long as its input
\* list whose n-th element is the resolution of the n-th input, in one
\* provider request, for page 1; GetCoinData sends the one name it got.
C16_TargetedFetch ==
    lastOp.op \in {"GetCoinData", "GetCoinDataBatch"} =>
        /\ Len(lastOp.ids) = Len(lastOp.names)
        /\ \A n \in 1..Len(lastOp.names) :
              lastOp.ids[n] = coinNameToID(lastOp.names[n])
        /\ lastOp.page = 1
        /\ lastOp.reqs = 1
        /\ lastOp.op = "GetCoinData" => Len(lastOp.names) = 1

\* C16 witness: a batch fetch of a symbol the table holds and of a name it
\* does not hold sent the ID and the slug, in that order
C16_Witness ==
    /\ lastOp.op = "GetCoinDataBatch"
    /\ lastOp.names = <<sBTC, sUnknownCoin>>
    /\ lastOp.ids = <<idBitcoin, NameToSlug(sUnknownCoin)>>
    /\ lastOp.page = 1

(***************************************************************************)
(* Fetch claims                                                            *)
(***************************************************************************)
\* the operation that completed failed at the provider
ProviderFailed == lastOp.op # "none" /\ lastOp.answer.err # "nil"

PricesCarried ==
    {pr[2] : pr \in {q \in UNION lastOp.answer.prices :
                        q[1] = ToLower(lastOp.convert)}}

\* C18: Price returns ErrNotFound exactly when SimplePrice succeeded and
\* no entry carries the lower-cased currency, and then the price is 0;
\* when an entry carries it the error is nil and the price is the
\* formatted price of such an entry.
C18_PriceNotFound ==
    lastOp.op = "Price" =>
        /\ (lastOp.err = "ErrNotFound") <=>
               (lastOp.answer.err = "nil" /\ PricesCarried = {})
        /\ lastOp.err = "ErrNotFound" => lastOp.price = 0
        /\ (lastOp.answer.err = "nil" /\ PricesCarried # {}) =>
               /\ lastOp.err = "nil"
               /\ \E p \in PricesCarried :
                     lastOp.price = FormatPrice(p, ToLower(lastOp.convert))

\* C18 witness, found: the currency was given as "Usd" and the entry's
\* price 1234 came back formatted, with a nil error
C18_Witness ==
    /\ lastOp.op = "Price"
    /\ lastOp.convert = sUsd
    /\ lastOp.answer.prices = {{<<susd, 1234>>}}
    /\ lastOp.err = "nil"
    /\ lastOp.price = 1230

\* the fetch that completed, run again with the currency in lower case
\* against the same table and the same provider answer
SameFetchLowerCase ==
    getPaginatedCoinData(ToLower(lastOp.convert), lastOp.page - 1,
                         lastOp.names, lastOp.answer)

SeededKeys ==
    (IF spc \in {"load_market", "set_market", "running"} THEN {"globaldata"} ELSE {})
        \cup (IF spc = "running" THEN {"market"} ELSE {})

\* the value NewCointop loaded for k
Loaded(k) == IF k = "globaldata" THEN globaldata ELSE market

C21_FailureEvictsNothing ==
    [][(/\ lastOp.op = "none"
        /\ lastOp'.op \in {"Price", "GetCoinData", "GetCoinDataBatch",
                           "getPaginatedCoinData"}
        /\ lastOp'.answer.err # "nil") =>
           /\ cacheMap' = cacheMap
           /\ vol' = vol
           /\ dur' = dur]_vars

\* C21 witness: a page request failed while the table and both tiers held
\* entries, and they still hold them
C21_Witness ==
    /\ lastOp.op = "getPaginatedCoinData"
    /\ lastOp.answer.err = "timeout"
    /\ MapLoad(cacheMap, sbtc).ok
    /\ VolatileGet("market") = [found |-> TRUE, value |-> 1]
    /\ DurableGet("market") = [found |-> TRUE, value |-> 1]

(***************************************************************************)
(* Normalization claims                                                    *)
(***************************************************************************)
\* the operation that completed normalized a page the provider returned
PageNormalized ==
    /\ lastOp.op \in {"GetCoinDataBatch", "getPaginatedCoinData"}
    /\ lastOp.answer.err = "nil"

\* C22: each record of a normalized page has the item's circulating supply
\* as its available supply, and as its total supply the item's total
\* supply, or the circulating supply when the total supply is 0.
C22_TotalSupplyFallback ==
    PageNormalized =>
        /\ Len(lastOp.coins) = Len(lastOp.answer.list)
        /\ \A n \in 1..Len(lastOp.answer.list) :
              LET item == lastOp.answer.list[n]
                  coin == lastOp.coins[n]
              IN /\ coin.AvailableSupply = item.CirculatingSupply
                 /\ item.TotalSupply = 0 =>
                        coin.TotalSupply = item.CirculatingSupply
                 /\ item.TotalSupply # 0 =>
                        coin.TotalSupply = item.TotalSupply

\* C22 witness: a page with an item that has a total supply and an item
\* that has none and a circulating supply of 8
C22_Witness ==
    /\ PageNormalized
    /\ Len(lastOp.coins) = 2
    /\ lastOp.answer.list[1].TotalSupply = 21
    /\ lastOp.coins[1].TotalSupply = 21
    /\ lastOp.coins[1].AvailableSupply = 19
    /\ lastOp.answer.list[2].TotalSupply = 0
    /\ lastOp.coins[2].TotalSupply = 8
    /\ lastOp.coins[2].AvailableSupply = 8

\* the value a percent-change field has to give: its value, 0 when absent
Window(field) == IF field = <<>> THEN 0 ELSE field[1]

\* C23: in every record of a normalized page each of the four windows has
\* the value of the item's field of that window, 0 when that field is
\* absent, whatever the other three fields are; the call returns no error
\* and a record for every item.
C23_PercentChangeDefault ==
    PageNormalized =>
        /\ lastOp.err = "nil"
        /\ Len(lastOp.coins) = Len(lastOp.answer.list)
        /\ \A n \in 1..Len(lastOp.answer.list) :
              LET item == lastOp.answer.list[n]
                  coin == lastOp.coins[n]
              IN /\ coin.PercentChange1H =
                        Window(item.PriceChangePercentage1hInCurrency)
                 /\ coin.PercentChange24H =
                        Window(item.PriceChangePercentage24hInCurrency)
                 /\ coin.PercentChange7D =
                        Window(item.PriceChangePercentage7dInCurrency)
                 /\ coin.PercentChange30D =
                        Window(item.PriceChangePercentage30dInCurrency)

\* C23 witness: an item without the 7-day field and with the three others
\* gave 0 for 7 days and the three values, next to an item without any
C23_Witness ==
    /\ PageNormalized
    /\ Len(lastOp.coins) = 2
    /\ lastOp.answer.list[1].PriceChangePercentage7dInCurrency = <<>>
    /\ lastOp.coins[1].PercentChange7D = 0
    /\ lastOp.coins[1].PercentChange1H = 2
    /\ lastOp.coins[1].PercentChange24H = 0 - 4
    /\ lastOp.coins[1].PercentChange30D = 6
    /\ lastOp.coins[2].PercentChange1H = 0

\* C26: a normalized page has one record per item of the provider's list,
\* the n-th record carrying the ID of the n-th item.
C26_CountAndOrder ==
    PageNormalized =>
        /\ Len(lastOp.coins) = Len(lastOp.answer.list)
        /\ \A n \in 1..Len(lastOp.answer.list) :
              lastOp.coins[n].ID = lastOp.answer.list[n].ID

\* C26 witness: the page request for page 2 returned two items with
\* different IDs and the batch holds their records in that order
C26_Witness ==
    /\ lastOp.op = "getPaginatedCoinData"
    /\ lastOp.page = 2
    /\ lastOp.answer.err = "nil"
    /\ Len(lastOp.answer.list) = 2
    /\ lastOp.coins[1].ID = idBitcoin
    /\ lastOp.coins[2].ID = idSimpleCoin

\* C29 as stated: when the provider's list is empty GetCoinData returns an
\* error; when it is not, the first record and a nil error.
C29_NotFoundIsAnError ==
    (lastOp.op = "GetCoinData" /\ lastOp.answer.err = "nil") =>
        IF lastOp.answer.list = <<>>
        THEN lastOp.err # "nil"
        ELSE /\ lastOp.err = "nil"
             /\ lastOp.coins =
                    <<NormalizeItem(lastOp.answer.list[1], lastOp.convert)>>

(***************************************************************************)
(* Resolver claims, continued                                              *)
(***************************************************************************)
\* the first entry of the catalog whose deferred first word is w
FirstDeferrer(w) ==
    CHOOSE j \in 1..Len(catalog) :
        /\ HasDeferredWord(catalog[j]) /\ FirstWord(catalog[j]) = w
        /\ \A h \in 1..(j - 1) :
              ~(HasDeferredWord(catalog[h]) /\ FirstWord(catalog[h]) = w)

\* some entry claims k in the catalog pass
ClaimedInCatalogPass(k) ==
    \E b \in 1..Len(catalog) : k \in ClaimedInPass(catalog[b])

\* C27: after the build, the deferred first word w of an entry resolves to
\* the ID of the first entry in catalog order that deferred w when no
\* entry claimed w in the catalog pass, and to the ID of the earliest
\* entry that claimed it there otherwise.
C27_DeferredInCatalogOrder ==
    returned =>
        \A a \in 1..Len(catalog) :
            HasDeferredWord(catalog[a]) =>
                LET w == FirstWord(catalog[a]) IN
                    IF ClaimedInCatalogPass(w)
                    THEN coinNameToID(w) =
                             catalog[EarliestClaimant(w, Len(catalog))].ID
                    ELSE coinNameToID(w) = catalog[FirstDeferrer(w)].ID

\* C27 witness: "Bitcoin Gold" precedes "Bitcoin Cash", no entry claims
\* "bitcoin" in the catalog pass, and "bitcoin" resolves to bitcoin-gold
C27_Witness ==
    /\ returned
    /\ Len(catalog) >= 2
    /\ catalog[1] = eBitcoinGold
    /\ catalog[2] = eBitcoinCash
    /\ ~ClaimedInCatalogPass(sbitcoin)
    /\ coinNameToID(sbitcoin) = idBitcoinGold

\* C28 as stated: after the build every catalog entry's ID resolves to
\* itself.
C28_IDsAreFixedPoints ==
    returned =>
        \A n \in 1..Len(catalog) : coinNameToID(catalog[n].ID) = catalog[n].ID

(***************************************************************************)
(* NewCointop: the restore of the coin list from the durable snapshot      *)
(* (cointop/cointop.go, from "allCoinsSlugMap := make(...)" to             *)
(* "ct.State.coins = ct.State.allCoins[0:max]").  A coin is its slug and   *)
(* its rank; slugs are numbered.                                           *)
(***************************************************************************)
MaxSnapshot == 3

\* "v.Rank = 10000"
RankSentinel == 10000

\* "if max > 100 { max = 100 }"
VisibleCap == 100

\* ranks a snapshot holds: none (0), two small ranks, and one past the
\* sentinel
RankPool == {0, 1, 2, RankSentinel + 1}

Coin(slug, rank) == [Slug |-> slug, Rank |-> rank]

\* every snapshot of at most MaxSnapshot coins over the rank pool
SmallSnapshots ==
    UNION {{{Coin(sl, f[sl]) : sl \in D} : f \in [D -> RankPool]} :
              D \in SUBSET (1..MaxSnapshot)}

\* a snapshot of one coin more than the cap: ranks 1 to VisibleCap and one
\* coin without a rank
LargeSnapshot == {Coin(sl, sl - 1) : sl \in 1..(VisibleCap + 1)}

Snapshots == SmallSnapshots \cup {LargeSnapshot}

\* "if v.Rank == 0 { v.Rank = 10000 }"
FixRank(c) == IF c.Rank = 0 THEN Coin(c.Slug, RankSentinel) ELSE c

\* the orders in which sync.Map.Range may visit a map: every order for a
\* small map, the two orders by slug for the large one
RangeOrders(m) ==
    LET n == Cardinality(m) IN
    IF n <= MaxSnapshot
    THEN {f \in [1..n -> m] : \A a, b \in 1..n : a # b => f[a] # f[b]}
    ELSE {[a \in 1..n |-> CHOOSE c \in m : c.Slug = a],
          [a \in 1..n |-> CHOOSE c \in m : c.Slug = n + 1 - a]}

\* ct.Sort with sortBy "rank" and sortDesc false: ascending by rank
Sort(list) == SortSeq(list, LAMBDA a, b : a.Rank < b.Rank)

\* "max := len(ct.State.allCoins); if max > 100 { max = 100 }"
SliceMax(list) == IF Len(list) > VisibleCap THEN VisibleCap ELSE Len(list)

InitStartup ==
    \* the Service as NewCoinGecko returned it when the catalog fetch failed
    /\ listResp = "err"
    /\ catalog = <<>>
    /\ bpc = "built"
    /\ idx = 1
    /\ firstWords = <<>>
    /\ cacheMap = EmptyMap
    /\ buildErr = "err"
    /\ returned = TRUE
    /\ lastOp = NoOp
    \* GetAllCoinData has not been called
    /\ provPages = 0
    /\ chCap = 0
    /\ pc = "idle"
    /\ i = 0
    /\ coins = <<>>
    /\ buf = <<>>
    /\ closed = 0
    /\ consumer = "active"
    /\ received = <<>>
    /\ requested = <<>>
    /\ emitted = <<>>
    /\ firstFail = 0
    /\ sleeps = 0
    /\ retErr = "none"
    \* NewCointop has not reached its cache seeding
    /\ hasFile = FALSE
    /\ dur = [k \in Keys |-> <<>>]
    /\ vol = [k \in Keys |-> <<>>]
    /\ now = 0
    /\ spc = "start"
    /\ globaldata = 0
    /\ market = 0
    /\ refreshed = {}
    \* NewCointop is about to restore the coin list; the snapshot is empty
    \* when there is no durable cache or it holds no coin list.
    \* "allCoins: []*Coin{}"; State.coins has its zero value
    /\ snapshot \in Snapshots
    /\ allCoinsSlugMap = {}
    /\ allCoins = <<>>
    /\ stateCoins = <<>>
    /\ npc = "get"
    \* neither Clean nor Reset has been called
    /\ cacheDir = "absent"
    /\ dirFiles = {}
    /\ dirFiles0 = {}
    /\ stuck = {}
    /\ pending = <<>>
    /\ configPaths = <<>>
    /\ configPaths0 = <<>>
    /\ cfgIdx = 1
    /\ kpc = "idle"
    /\ kop = "none"
    /\ cleanRet = "none"
    /\ resetRet = "none"
    \* GetAllCoinData has not been called a second time
    /\ runs = 0
    /\ tpc = [r \in 1..2 |-> "idle"]
    /\ ti = [r \in 1..2 |-> 0]
    /\ tclosed = 0
    /\ tsentClosed = 0
    /\ tfault = "none"
    \* the table has not been drawn
    /\ listCount = 0
    /\ perPage = 1
    /\ page = 0
    /\ tableLen = 0
    /\ viewHeight = 0
    /\ oy = 0
    /\ cy = 0
    /\ navFault = "none"
    /\ navOp = NoNav

\* "ct.filecache.Get(coinscachekey, &allCoinsSlugMap)", the loop that
\* replaces rank 0, and "ct.State.allCoinsSlugMap.Store(k, v)" for each
RestoreSnapshot ==
    /\ npc = "get"
    /\ allCoinsSlugMap' = {FixRank(c) : c \in snapshot}
    /\ npc' = "range"
    /\ UNCHANGED <<snapshot, allCoins, stateCoins>>

\* "ct.State.allCoinsSlugMap.Range(... append(ct.State.allCoins, coin) ...)"
RangeAll ==
    /\ npc = "range"
    /\ \E order \in RangeOrders(allCoinsSlugMap) : allCoins' = allCoins \o order
    /\ npc' = "slice"
    /\ UNCHANGED <<snapshot, allCoinsSlugMap, stateCoins>>

\* "if len(ct.State.allCoins) > 1 { ...; ct.Sort(...); ct.State.coins =
\* ct.State.allCoins[0:max] }"
SortAndSlice ==
    /\ npc = "slice"
    /\ IF Len(allCoins) > 1
       THEN /\ allCoins' = Sort(allCoins)
            /\ stateCoins' = SubSeq(Sort(allCoins), 1, SliceMax(allCoins))
       ELSE UNCHANGED <<allCoins, stateCoins>>
    /\ npc' = "done"
    /\ UNCHANGED <<snapshot, allCoinsSlugMap>>

NextStartup ==
    \/ RestoreSnapshot /\ UNCHANGED <<rvars, fvars, cvars, kvars, tvars, nvars>>
    \/ RangeAll /\ UNCHANGED <<rvars, fvars, cvars, kvars, tvars, nvars>>
    \/ SortAndSlice /\ UNCHANGED <<rvars, fvars, cvars, kvars, tvars, nvars>>

SpecStartup == InitStartup /\ [][NextStartup]_vars

(***************************************************************************)
(* Startup claims                                                          *)
(***************************************************************************)
\* the coin of the restored map that has the slug of c
Restored(c) == CHOOSE d \in allCoinsSlugMap : d.Slug = c.Slug

\* the position of the coin with the slug of c in the list of all coins
PositionOf(c) == CHOOSE a \in 1..Len(allCoins) : allCoins[a].Slug = c.Slug

\* C24 as stated: once more than one coin is restored, a coin of the
\* snapshot with rank 0 has the sentinel rank, every other coin has its
\* own rank, and in the sorted list every coin without a rank comes after
\* every coin with one.
C24_UnrankedAfterRanked ==
    (npc = "done" /\ Cardinality(snapshot) > 1) =>
        /\ \A c \in snapshot :
              Restored(c).Rank = IF c.Rank = 0 THEN RankSentinel ELSE c.Rank
        /\ \A c, d \in snapshot :
              (c.Rank # 0 /\ d.Rank = 0) => PositionOf(c) < PositionOf(d)

\* the smaller of two numbers
Min(a, b) == IF a < b THEN a ELSE b

\* C30 as stated: after the restore of N coins the list of all coins holds
\* exactly those N coins, and the visible list is its first min(N, 100)
\* coins, in ascending order of rank.
C30_VisibleIsFirstHundred ==
    npc = "done" =>
        /\ Len(allCoins) = Cardinality(snapshot)
        /\ {allCoins[a] : a \in 1..Len(allCoins)} = allCoinsSlugMap
        /\ stateCoins = SubSeq(allCoins, 1, Min(Cardinality(snapshot), VisibleCap))
        /\ \A a, b \in 1..Len(stateCoins) :
              a < b => stateCoins[a].Rank <= stateCoins[b].Rank

(***************************************************************************)
(* Clean and Reset (cointop/cointop.go)                                    *)
(***************************************************************************)
MaxConfigPaths == 2

\* the argument of strings.HasPrefix in Clean: "fcache."
fcachePrefix == <<"f", "c", "a", "c", "h", "e", ".">>

\* file names a cache directory holds
nFcache  == <<"f", "c", "a", "c", "h", "e">>
nFcacheA == <<"f", "c", "a", "c", "h", "e", ".", "a">>
nFcacheB == <<"f", "c", "a", "c", "h", "e", ".", "b">>
nNotes   == <<"n", "o", "t", "e", "s">>

\* the names in the order ioutil.ReadDir lists them (sorted by file name)
FileOrder == <<nFcache, nFcacheA, nFcacheB, nNotes>>

FilePool == {FileOrder[a] : a \in 1..Len(FileOrder)}

\* faulty variant: the last character of the prefix is not compared
HasPrefixNoDot(str, prefix) ==
    /\ Len(str) >= Len(prefix) - 1
    /\ SubSeq(str, 1, Len(prefix) - 1) = SubSeq(prefix, 1, Len(prefix) - 1)

\* strings.HasPrefix
HasPrefix(str, prefix) ==
    /\ Len(str) >= Len(prefix)
    /\ SubSeq(str, 1, Len(prefix)) = prefix

\* "files, err := ioutil.ReadDir(cacheDir)"
ReadDir == SelectSeq(FileOrder, LAMBDA f : f \in dirFiles)

\* the states of possibleConfigPaths on disk
ConfigStates ==
    UNION {[1..n -> {"absent", "present", "stuck"}] : n \in 1..MaxConfigPaths}

InitClean ==
    \* the Service as NewCoinGecko returned it when the catalog fetch failed
    /\ listResp = "err"
    /\ catalog = <<>>
    /\ bpc = "built"
    /\ idx = 1
    /\ firstWords = <<>>
    /\ cacheMap = EmptyMap
    /\ buildErr = "err"
    /\ returned = TRUE
    /\ lastOp = NoOp
    \* GetAllCoinData has not been called
    /\ provPages = 0
    /\ chCap = 0
    /\ pc = "idle"
    /\ i = 0
    /\ coins = <<>>
    /\ buf = <<>>
    /\ closed = 0
    /\ consumer = "active"
    /\ received = <<>>
    /\ requested = <<>>
    /\ emitted = <<>>
    /\ firstFail = 0
    /\ sleeps = 0
    /\ retErr = "none"
    \* NewCointop has not reached its cache seeding
    /\ hasFile = FALSE
    /\ dur = [k \in Keys |-> <<>>]
    /\ vol = [k \in Keys |-> <<>>]
    /\ now = 0
    /\ spc = "start"
    /\ globaldata = 0
    /\ market = 0
    /\ refreshed = {}
    \* NewCointop has not reached the restore of the coin list
    /\ snapshot = {}
    /\ allCoinsSlugMap = {}
    /\ allCoins = <<>>
    /\ stateCoins = <<>>
    /\ npc = "idle"
    \* the disk as an earlier run left it
    /\ cacheDir \in {"absent", "present", "unreadable"}
    /\ dirFiles \in SUBSET FilePool
    /\ cacheDir = "absent" => dirFiles = {}
    /\ dirFiles0 = dirFiles
    /\ stuck \in SUBSET dirFiles
    /\ pending = <<>>
    /\ configPaths \in ConfigStates
    /\ configPaths0 = configPaths
    /\ cfgIdx = 1
    /\ kpc = "idle"
    /\ kop = "none"
    /\ cleanRet = "none"
    /\ resetRet = "none"
    \* GetAllCoinData has not been called a second time
    /\ runs = 0
    /\ tpc = [r \in 1..2 |-> "idle"]
    /\ ti = [r \in 1..2 |-> 0]
    /\ tclosed = 0
    /\ tsentClosed = 0
    /\ tfault = "none"
    \* the table has not been drawn
    /\ listCount = 0
    /\ perPage = 1
    /\ page = 0
    /\ tableLen = 0
    /\ viewHeight = 0
    /\ oy = 0
    /\ cy = 0
    /\ navFault = "none"
    /\ navOp = NoNav

\* Clean is called, by the command or by Reset
Call(op) ==
    /\ kpc = "idle"
    /\ kop' = op
    /\ kpc' = "stat"
    /\ UNCHANGED <<cacheDir, dirFiles, dirFiles0, stuck, pending, configPaths,
                   configPaths0, cfgIdx, cleanRet, resetRet>>

\* where the caller of Clean goes on: the command is over, Reset tests err
AfterClean == IF kop = "Clean" THEN "done" ELSE "reset"

\* "if _, err := os.Stat(cacheDir); !os.IsNotExist(err) { files, err :=
\* ioutil.ReadDir(cacheDir); if err != nil { return err } ..."
StatAndReadDir ==
    /\ kpc = "stat"
    /\ CASE cacheDir = "absent" ->
              /\ pending' = <<>>
              /\ kpc' = "loop"
              /\ UNCHANGED cleanRet
         [] cacheDir = "unreadable" ->
              /\ cleanRet' = "err"
              /\ kpc' = AfterClean
              /\ UNCHANGED pending
         [] OTHER ->
              /\ pending' = ReadDir
              /\ kpc' = "loop"
              /\ UNCHANGED cleanRet
    /\ UNCHANGED <<cacheDir, dirFiles, dirFiles0, stuck, configPaths,
                   configPaths0, cfgIdx, kop, resetRet>>

\* one turn of "for _, f := range files { if strings.HasPrefix(f.Name(),
\* "fcache.") { ...; if err := os.Remove(file); err != nil { return err } } }"
RemoveStep ==
    /\ kpc = "loop"
    /\ pending # <<>>
    /\ LET f == Head(pending) IN
          IF HasPrefix(f, fcachePrefix)
          THEN IF f \in stuck
               THEN /\ cleanRet' = "err"
                    /\ kpc' = AfterClean
                    /\ UNCHANGED <<dirFiles, pending>>
               ELSE /\ dirFiles' = dirFiles \ {f}
                    /\ pending' = Tail(pending)
                    /\ UNCHANGED <<cleanRet, kpc>>
          ELSE /\ pending' = Tail(pending)
               /\ UNCHANGED <<dirFiles, cleanRet, kpc>>
    /\ UNCHANGED <<cacheDir, dirFiles0, stuck, configPaths, configPaths0,
                   cfgIdx, kop, resetRet>>

\* the end of Clean: "return nil"
CleanReturn ==
    /\ kpc = "loop"
    /\ pending = <<>>
    /\ cleanRet' = "nil"
    /\ kpc' = AfterClean
    /\ UNCHANGED <<cacheDir, dirFiles, dirFiles0, stuck, pending, configPaths,
                   configPaths0, cfgIdx, kop, resetRet>>

\* Reset: "if err := Clean(...); err != nil { return err }"
ResetAfterClean ==
    /\ kpc = "reset"
    /\ IF cleanRet = "err"
       THEN /\ resetRet' = "err"
            /\ kpc' = "done"
       ELSE /\ kpc' = "config"
            /\ UNCHANGED resetRet
    /\ UNCHANGED <<cacheDir, dirFiles, dirFiles0, stuck, pending, configPaths,
                   configPaths0, cfgIdx, kop, cleanRet>>

\* one turn of "for _, configPath := range possibleConfigPaths { if _, err
\* := os.Stat(normalizedPath); !os.IsNotExist(err) { if err :=
\* os.RemoveAll(normalizedPath); err != nil { return err } } }"
ConfigStep ==
    /\ kpc = "config"
    /\ cfgIdx <= Len(configPaths)
    /\ CASE configPaths[cfgIdx] = "absent" ->
              /\ cfgIdx' = cfgIdx + 1
              /\ UNCHANGED <<configPaths, resetRet, kpc>>
         [] configPaths[cfgIdx] = "present" ->
              /\ configPaths' = [configPaths EXCEPT ![cfgIdx] = "absent"]
              /\ cfgIdx' = cfgIdx + 1
              /\ UNCHANGED <<resetRet, kpc>>
         [] OTHER ->
              /\ resetRet' = "err"
              /\ kpc' = "done"
              /\ UNCHANGED <<configPaths, cfgIdx>>
    /\ UNCHANGED <<cacheDir, dirFiles, dirFiles0, stuck, pending,
                   configPaths0, kop, cleanRet>>

\* the end of Reset: "return nil"
ResetReturn ==
    /\ kpc = "config"
    /\ cfgIdx > Len(configPaths)
    /\ resetRet' = "nil"
    /\ kpc' = "done"
    /\ UNCHANGED <<cacheDir, dirFiles, dirFiles0, stuck, pending, configPaths,
                   configPaths0, cfgIdx, kop, cleanRet>>

NextClean ==
    \/ \E op \in {"Clean", "Reset"} :
           Call(op) /\ UNCHANGED <<rvars, fvars, cvars, svars, tvars, nvars>>
    \/ StatAndReadDir /\ UNCHANGED <<rvars, fvars, cvars, svars, tvars, nvars>>
    \/ RemoveStep /\ UNCHANGED <<rvars, fvars, cvars, svars, tvars, nvars>>
    \/ CleanReturn /\ UNCHANGED <<rvars, fvars, cvars, svars, tvars, nvars>>
    \/ ResetAfterClean /\ UNCHANGED <<rvars, fvars, cvars, svars, tvars, nvars>>
    \/ ConfigStep /\ UNCHANGED <<rvars, fvars, cvars, svars, tvars, nvars>>
    \/ ResetReturn /\ UNCHANGED <<rvars, fvars, cvars, svars, tvars, nvars>>

SpecClean == InitClean /\ [][NextClean]_vars

(***************************************************************************)
(* Clean and Reset claims                                                  *)
(***************************************************************************)
\* the name is "fcache." followed by the rest of the name
NamedFcacheDot(f) == f = fcachePrefix \o SubSeq(f, Len(fcachePrefix) + 1, Len(f))

\* C25: once Clean has returned without error, the cache directory holds
\* exactly the files it held before whose names do not start with
\* "fcache."; Clean on a cache directory that does not exist returns
\* without error; a configuration path is removed only by Reset and only
\* after Clean has returned without error, and none is removed when Clean
\* returned an error.
C25_CleanThenReset ==
    /\ cleanRet = "nil" => dirFiles = {f \in dirFiles0 : ~NamedFcacheDot(f)}
    /\ (cacheDir = "absent" /\ cleanRet # "none") => cleanRet = "nil"
    /\ configPaths # configPaths0 => (kop = "Reset" /\ cleanRet = "nil")
    /\ cleanRet = "err" => (configPaths = configPaths0 /\ resetRet # "nil")

\* C25 witness: Reset has returned after Clean removed two cache files and
\* kept two other files, and after a configuration path was removed
C25_Witness ==
    /\ kop = "Reset"
    /\ resetRet = "nil"
    /\ cleanRet = "nil"
    /\ dirFiles0 = FilePool
    /\ dirFiles = {nFcache, nNotes}
    /\ configPaths # configPaths0

(***************************************************************************)
(* Two calls of GetAllCoinData with one channel: each call starts its own  *)
(* goroutine with its own "defer close(ch)".  The receiver takes every     *)
(* batch as it is sent.  close of a closed channel and a send on a closed  *)
(* channel are runtime panics, which end the process.                      *)
(***************************************************************************)
InitTwoRuns ==
    \* the Service as NewCoinGecko returned it when the catalog fetch failed
    /\ listResp = "err"
    /\ catalog = <<>>
    /\ bpc = "built"
    /\ idx = 1
    /\ firstWords = <<>>
    /\ cacheMap = EmptyMap
    /\ buildErr = "err"
    /\ returned = TRUE
    /\ lastOp = NoOp
    \* GetAllCoinData has not been called
    /\ provPages = 0
    /\ chCap = 0
    /\ pc = "idle"
    /\ i = 0
    /\ coins = <<>>
    /\ buf = <<>>
    /\ closed = 0
    /\ consumer = "active"
    /\ received = <<>>
    /\ requested = <<>>
    /\ emitted = <<>>
    /\ firstFail = 0
    /\ sleeps = 0
    /\ retErr = "none"
    \* NewCointop has not reached its cache seeding
    /\ hasFile = FALSE
    /\ dur = [k \in Keys |-> <<>>]
    /\ vol = [k \in Keys |-> <<>>]
    /\ now = 0
    /\ spc = "start"
    /\ globaldata = 0
    /\ market = 0
    /\ refreshed = {}
    \* NewCointop has not reached the restore of the coin list
    /\ snapshot = {}
    /\ allCoinsSlugMap = {}
    /\ allCoins = <<>>
    /\ stateCoins = <<>>
    /\ npc = "idle"
    \* neither Clean nor Reset has been called
    /\ cacheDir = "absent"
    /\ dirFiles = {}
    /\ dirFiles0 = {}
    /\ stuck = {}
    /\ pending = <<>>
    /\ configPaths = <<>>
    /\ configPaths0 = <<>>
    /\ cfgIdx = 1
    /\ kpc = "idle"
    /\ kop = "none"
    /\ cleanRet = "none"
    /\ resetRet = "none"
    \* no call of GetAllCoinData has been made with the channel yet
    /\ runs = 0
    /\ tpc = [r \in 1..2 |-> "idle"]
    /\ ti = [r \in 1..2 |-> 0]
    /\ tclosed = 0
    /\ tsentClosed = 0
    /\ tfault = "none"
    \* the table has not been drawn
    /\ listCount = 0
    /\ perPage = 1
    /\ page = 0
    /\ tableLen = 0
    /\ viewHeight = 0
    /\ oy = 0
    /\ cy = 0
    /\ navFault = "none"
    /\ navOp = NoNav

\* "go func() {...}(); return nil": the second call is made while the
\* goroutine of the first is still running
CallGetAllCoinData ==
    /\ tfault = "none"
    /\ runs < 2
    /\ runs = 1 => tpc[1] # "done"
    /\ runs' = runs + 1
    /\ tpc' = [tpc EXCEPT ![runs + 1] = "loop"]
    /\ ti' = [ti EXCEPT ![runs + 1] = 0]
    /\ UNCHANGED <<tclosed, tsentClosed, tfault>>

\* a return of goroutine r: "defer close(ch)" runs
ReturnAndClose(r) ==
    /\ tpc' = [tpc EXCEPT ![r] = "done"]
    /\ tclosed' = DeferredClose(tclosed)
    /\ tfault' = IF tclosed > 0 THEN "close of closed channel" ELSE tfault

\* "for i := 0; i < s.maxPages; i++": the loop test of goroutine r
TwoLoopTest(r) ==
    /\ tfault = "none"
    /\ tpc[r] = "loop"
    /\ IF LoopCond(ti[r])
       THEN /\ tpc' = [tpc EXCEPT ![r] = "call"]
            /\ UNCHANGED <<tclosed, tfault>>
       ELSE ReturnAndClose(r)
    /\ UNCHANGED <<runs, ti, tsentClosed>>

\* getPaginatedCoinData fails: "if err != nil { return }"
TwoFetchErr(r) ==
    /\ tfault = "none"
    /\ tpc[r] = "call"
    /\ ReturnAndClose(r)
    /\ UNCHANGED <<runs, ti, tsentClosed>>

\* getPaginatedCoinData succeeds
TwoFetchOk(r) ==
    /\ tfault = "none"
    /\ tpc[r] = "call"
    /\ tpc' = [tpc EXCEPT ![r] = "send"]
    /\ UNCHANGED <<runs, ti, tclosed, tsentClosed, tfault>>

\* "ch <- coins" of goroutine r, then "i++"
TwoSend(r) ==
    /\ tfault = "none"
    /\ tpc[r] = "send"
    /\ IF tclosed > 0
       THEN /\ tsentClosed' = tsentClosed + 1
            /\ tfault' = "send on closed channel"
            /\ UNCHANGED <<tpc, ti>>
       ELSE /\ ti' = [ti EXCEPT ![r] = ti[r] + 1]
            /\ tpc' = [tpc EXCEPT ![r] = "loop"]
            /\ UNCHANGED <<tsentClosed, tfault>>
    /\ UNCHANGED <<runs, tclosed>>

NextTwoRuns ==
    \/ CallGetAllCoinData /\ UNCHANGED <<rvars, fvars, cvars, svars, kvars, nvars>>
    \/ \E r \in 1..2 : TwoLoopTest(r) /\ UNCHANGED <<rvars, fvars, cvars, svars, kvars, nvars>>
    \/ \E r \in 1..2 : TwoFetchErr(r) /\ UNCHANGED <<rvars, fvars, cvars, svars, kvars, nvars>>
    \/ \E r \in 1..2 : TwoFetchOk(r) /\ UNCHANGED <<rvars, fvars, cvars, svars, kvars, nvars>>
    \/ \E r \in 1..2 : TwoSend(r) /\ UNCHANGED <<rvars, fvars, cvars, svars, kvars, nvars>>

SpecTwoRuns == InitTwoRuns /\ [][NextTwoRuns]_vars

\* C31 as stated: with a second call made while the first goroutine is
\* running, close(ch) is executed at most once and no send is executed on
\* the closed channel.
C31_SinkClosedOnce ==
    runs = 2 => (tclosed <= 1 /\ tsentClosed = 0)

(***************************************************************************)
(* Page navigation (cointop/navigation.go): SetPage, NextPage, PrevPage,   *)
(* FirstPage and LastPage over ct.State.page.  UpdateTable and RowChanged, *)
(* which these call last, redraw the table and leave the page as it is.    *)
(***************************************************************************)
MaxCount == 6
MaxPerPage == 3

\* a completed navigation call: its name, its argument, what it returned
\* and the page before it
Nav(op, arg, ret, before) == [op |-> op, arg |-> arg, ret |-> ret, before |-> before]

\* "return ct.GetListCount() / ct.State.perPage"
TotalPages == listCount \div perPage

\* "return ct.State.page == 0"
IsFirstPage == page = 0

\* "return ct.State.page == ct.TotalPages()-1"
IsLastPage == page = TotalPages - 1

\* "if (page*ct.State.perPage) < ct.GetListCount() && page >= 0 {
\* ct.State.page = page }; return ct.State.page"
PageAfterSet(p) == IF p * perPage < listCount /\ p >= 0 THEN p ELSE page

\* "ct.State.page = ct.GetListCount() / ct.State.perPage"
LastPageTarget == listCount \div perPage

InitPaging ==
    \* the Service as NewCoinGecko returned it when the catalog fetch failed
    /\ listResp = "err"
    /\ catalog = <<>>
    /\ bpc = "built"
    /\ idx = 1
    /\ firstWords = <<>>
    /\ cacheMap = EmptyMap
    /\ buildErr = "err"
    /\ returned = TRUE
    /\ lastOp = NoOp
    \* GetAllCoinData has not been called
    /\ provPages = 0
    /\ chCap = 0
    /\ pc = "idle"
    /\ i = 0
    /\ coins = <<>>
    /\ buf = <<>>
    /\ closed = 0
    /\ consumer = "active"
    /\ received = <<>>
    /\ requested = <<>>
    /\ emitted = <<>>
    /\ firstFail = 0
    /\ sleeps = 0
    /\ retErr = "none"
    \* NewCointop has not reached its cache seeding
    /\ hasFile = FALSE
    /\ dur = [k \in Keys |-> <<>>]
    /\ vol = [k \in Keys |-> <<>>]
    /\ now = 0
    /\ spc = "start"
    /\ globaldata = 0
    /\ market = 0
    /\ refreshed = {}
    \* NewCointop has not reached the restore of the coin list
    /\ snapshot = {}
    /\ allCoinsSlugMap = {}
    /\ allCoins = <<>>
    /\ stateCoins = <<>>
    /\ npc = "idle"
    \* neither Clean nor Reset has been called
    /\ cacheDir = "absent"
    /\ dirFiles = {}
    /\ dirFiles0 = {}
    /\ stuck = {}
    /\ pending = <<>>
    /\ configPaths = <<>>
    /\ configPaths0 = <<>>
    /\ cfgIdx = 1
    /\ kpc = "idle"
    /\ kop = "none"
    /\ cleanRet = "none"
    /\ resetRet = "none"
    \* GetAllCoinData has not been called a second time
    /\ runs = 0
    /\ tpc = [r \in 1..2 |-> "idle"]
    /\ ti = [r \in 1..2 |-> 0]
    /\ tclosed = 0
    /\ tsentClosed = 0
    /\ tfault = "none"
    \* a list of listCount items is shown from its first page; no row call
    \* has been made
    /\ listCount \in 0..MaxCount
    /\ perPage \in 1..MaxPerPage
    /\ page = 0
    /\ tableLen = 0
    /\ viewHeight = 0
    /\ oy = 0
    /\ cy = 0
    /\ navFault = "none"
    /\ navOp = NoNav

SetPage(p) ==
    /\ page' = PageAfterSet(p)
    /\ navOp' = Nav("SetPage", p, page', page)
    /\ UNCHANGED <<listCount, perPage, tableLen, viewHeight, oy, cy, navFault>>

\* "if ct.IsLastPage() { return nil }; ct.SetPage(ct.State.page + 1)"
NextPage ==
    /\ page' = IF IsLastPage THEN page ELSE PageAfterSet(page + 1)
    /\ navOp' = Nav("NextPage", 0, 0, page)
    /\ UNCHANGED <<listCount, perPage, tableLen, viewHeight, oy, cy, navFault>>

\* "if ct.IsFirstPage() { return nil }; ct.SetPage(ct.State.page - 1)"
PrevPage ==
    /\ page' = IF IsFirstPage THEN page ELSE PageAfterSet(page - 1)
    /\ navOp' = Nav("PrevPage", 0, 0, page)
    /\ UNCHANGED <<listCount, perPage, tableLen, viewHeight, oy, cy, navFault>>

\* "if ct.IsFirstPage() { return nil }; ct.State.page = 0"
FirstPage ==
    /\ page' = IF IsFirstPage THEN page ELSE 0
    /\ navOp' = Nav("FirstPage", 0, 0, page)
    /\ UNCHANGED <<listCount, perPage, tableLen, viewHeight, oy, cy, navFault>>

\* "if ct.IsLastPage() { return nil }; ct.State.page = ct.GetListCount() /
\* ct.State.perPage"
LastPage ==
    /\ page' = IF IsLastPage THEN page ELSE LastPageTarget
    /\ navOp' = Nav("LastPage", 0, 0, page)
    /\ UNCHANGED <<listCount, perPage, tableLen, viewHeight, oy, cy, navFault>>

NextPaging ==
    \/ \E p \in -1..(MaxCount + 1) :
           SetPage(p) /\ UNCHANGED <<rvars, fvars, cvars, svars, kvars, tvars>>
    \/ NextPage /\ UNCHANGED <<rvars, fvars, cvars, svars, kvars, tvars>>
    \/ PrevPage /\ UNCHANGED <<rvars, fvars, cvars, svars, kvars, tvars>>
    \/ FirstPage /\ UNCHANGED <<rvars, fvars, cvars, svars, kvars, tvars>>
    \/ LastPage /\ UNCHANGED <<rvars, fvars, cvars, svars, kvars, tvars>>

SpecPaging == InitPaging /\ [][NextPaging]_vars

(***************************************************************************)
(* Page navigation claims                                                  *)
(***************************************************************************)
\* page p holds at least one item of the list
HoldsAnItem(p) == 0 <= p /\ p * perPage < listCount

\* page p holds the final item of the list
HoldsFinalItem(p) == p * perPage < listCount /\ listCount <= (p + 1) * perPage

\* C32 as stated: with a list that is not empty the current page always
\* holds at least one item, and a SetPage whose argument holds no item
\* leaves the page as it was and returns it.
C32_CurrentPageHoldsAnItem ==
    listCount > 0 =>
        /\ HoldsAnItem(page)
        /\ (navOp.op = "SetPage" /\ ~HoldsAnItem(navOp.arg)) =>
               (page = navOp.before /\ navOp.ret = page)

\* C33 as stated: with a list that is not empty, right after LastPage the
\* page is the last page by IsLastPage, and LastPage left the page as it
\* was exactly when the page was already the one LastPage navigates to.
C33_LastPageIsLast ==
    (listCount > 0 /\ navOp.op = "LastPage") =>
        /\ IsLastPage
        /\ (page = navOp.before) <=> (navOp.before = LastPageTarget)

\* C34 as stated: with a list that is not empty, NextPage moves to the
\* next page whenever that page holds an item, and leaves the page as it
\* was only on the page that holds the final item.
C34_NextPageReachesAll ==
    (listCount > 0 /\ navOp.op = "NextPage") =>
        /\ HoldsAnItem(navOp.before + 1) => page = navOp.before + 1
        /\ page = navOp.before => HoldsFinalItem(navOp.before)

(***************************************************************************)
(* Row navigation (cointop/navigation.go): HighlightRow, GoToGlobalIndex   *)
(* and GoToCoinRow.  SetOrigin and SetCursor of the table view store what  *)
(* they are given.  An integer division by zero is a runtime panic, which  *)
(* ends the process.                                                       *)
(***************************************************************************)
MaxRows == 6
MaxHeight == 3

\* faulty variant: the end of the page is not treated apart
EndOfPageIgnored(pageRowIndex, l, h) == FALSE

\* "if pageRowIndex >= l-h"
EndOfPage(pageRowIndex, l, h) == pageRowIndex >= l - h

\* HighlightRow from "if pageRowIndex < 0 { pageRowIndex = 0 }" to the
\* values it passes to SetOrigin and SetCursor
RowPosition(pageRowIndex) ==
    LET row == IF pageRowIndex < 0 THEN 0 ELSE pageRowIndex
        l == tableLen
        h == Min(viewHeight, l)
    IN  IF h > 0
        THEN IF EndOfPage(row, l, h)
             THEN [oy |-> l - h, cy |-> h - (l - row)]
             ELSE [oy |-> row - (row % h), cy |-> row % h]
        ELSE [oy |-> 0, cy |-> 0]

\* "var idx int; for i, v := range ct.State.coins { if v == coin { idx = i;
\* break } }": a row of the table, 0 when the coin is in no row
CoinRowIndexes == IF tableLen = 0 THEN {0} ELSE 0..(tableLen - 1)

InitRows ==
    \* the Service as NewCoinGecko returned it when the catalog fetch failed
    /\ listResp = "err"
    /\ catalog = <<>>
    /\ bpc = "built"
    /\ idx = 1
    /\ firstWords = <<>>
    /\ cacheMap = EmptyMap
    /\ buildErr = "err"
    /\ returned = TRUE
    /\ lastOp = NoOp
    \* GetAllCoinData has not been called
    /\ provPages = 0
    /\ chCap = 0
    /\ pc = "idle"
    /\ i = 0
    /\ coins = <<>>
    /\ buf = <<>>
    /\ closed = 0
    /\ consumer = "active"
    /\ received = <<>>
    /\ requested = <<>>
    /\ emitted = <<>>
    /\ firstFail = 0
    /\ sleeps = 0
    /\ retErr = "none"
    \* NewCointop has not reached its cache seeding
    /\ hasFile = FALSE
    /\ dur = [k \in Keys |-> <<>>]
    /\ vol = [k \in Keys |-> <<>>]
    /\ now = 0
    /\ spc = "start"
    /\ globaldata = 0
    /\ market = 0
    /\ refreshed = {}
    \* NewCointop has not reached the restore of the coin list
    /\ snapshot = {}
    /\ allCoinsSlugMap = {}
    /\ allCoins = <<>>
    /\ stateCoins = <<>>
    /\ npc = "idle"
    \* neither Clean nor Reset has been called
    /\ cacheDir = "absent"
    /\ dirFiles = {}
    /\ dirFiles0 = {}
    /\ stuck = {}
    /\ pending = <<>>
    /\ configPaths = <<>>
    /\ configPaths0 = <<>>
    /\ cfgIdx = 1
    /\ kpc = "idle"
    /\ kop = "none"
    /\ cleanRet = "none"
    /\ resetRet = "none"
    \* GetAllCoinData has not been called a second time
    /\ runs = 0
    /\ tpc = [r \in 1..2 |-> "idle"]
    /\ ti = [r \in 1..2 |-> 0]
    /\ tclosed = 0
    /\ tsentClosed = 0
    /\ tfault = "none"
    \* a table of tableLen rows, cut from a list of listCount items, is
    \* shown in a view of viewHeight lines; the table is empty before the
    \* first coins arrive
    /\ listCount \in 0..MaxCount
    /\ perPage \in 1..MaxPerPage
    /\ page = 0
    /\ tableLen \in 0..MaxRows
    /\ tableLen <= listCount
    /\ viewHeight \in 0..MaxHeight
    /\ oy = 0
    /\ cy = 0
    /\ navFault = "none"
    /\ navOp = NoNav

HighlightRow(pageRowIndex) ==
    /\ navFault = "none"
    /\ oy' = RowPosition(pageRowIndex).oy
    /\ cy' = RowPosition(pageRowIndex).cy
    /\ navOp' = Nav("HighlightRow", pageRowIndex, 0, page)
    /\ UNCHANGED <<listCount, perPage, page, tableLen, viewHeight, navFault>>

\* "l := ct.TableRowsLen(); atpage := idx / l; ct.SetPage(atpage);
\* rowIndex := (idx % l); ct.HighlightRow(rowIndex); ct.UpdateTable()"
GoToGlobalIndexAs(op, index) ==
    /\ navFault = "none"
    /\ IF tableLen = 0
       THEN /\ navFault' = "integer divide by zero"
            /\ UNCHANGED <<page, oy, cy, navOp>>
       ELSE /\ page' = PageAfterSet(index \div tableLen)
            /\ oy' = RowPosition(index % tableLen).oy
            /\ cy' = RowPosition(index % tableLen).cy
            /\ navOp' = Nav(op, index, 0, page)
            /\ UNCHANGED navFault
    /\ UNCHANGED <<listCount, perPage, tableLen, viewHeight>>

GoToGlobalIndex(index) == GoToGlobalIndexAs("GoToGlobalIndex", index)

\* "idx := ct.GetCoinRowIndex(coin); return ct.GoToGlobalIndex(idx)", for a
\* coin that is not nil
GoToCoinRow == \E index \in CoinRowIndexes : GoToGlobalIndexAs("GoToCoinRow", index)

NextRows ==
    \/ \E pageRowIndex \in -1..MaxRows :
           HighlightRow(pageRowIndex) /\ UNCHANGED <<rvars, fvars, cvars, svars, kvars, tvars>>
    \/ \E index \in 0..MaxCount :
           GoToGlobalIndex(index) /\ UNCHANGED <<rvars, fvars, cvars, svars, kvars, tvars>>
    \/ GoToCoinRow /\ UNCHANGED <<rvars, fvars, cvars, svars, kvars, tvars>>

SpecRows == InitRows /\ [][NextRows]_vars

(***************************************************************************)
(* Row navigation claims                                                   *)
(***************************************************************************)
\* the row HighlightRow was asked for, a negative one counted as row 0
AskedRow == IF navOp.arg < 0 THEN 0 ELSE navOp.arg

\* the number of rows the view shows at once
Shown == IF viewHeight < tableLen THEN viewHeight ELSE tableLen

\* C35: after HighlightRow(idx) on a table of l > 0 rows in a view of
\* H > 0 lines, with idx < l and a negative idx counted as 0, the origin
\* and the cursor add up to the row, the cursor is inside the shown lines
\* and the origin is between 0 and l - min(H, l).
C35_CursorOnRequestedRow ==
    (/\ navOp.op = "HighlightRow"
     /\ tableLen > 0
     /\ viewHeight > 0
     /\ navOp.arg < tableLen) =>
        /\ oy + cy = AskedRow
        /\ 0 <= cy /\ cy < Shown
        /\ 0 <= oy /\ oy <= tableLen - Shown

\* C35 witness: a row in the last screenful of a table longer than the view
C35_Witness ==
    /\ navOp.op = "HighlightRow"
    /\ viewHeight > 0
    /\ viewHeight < tableLen
    /\ navOp.arg = tableLen - 1
    /\ oy = tableLen - viewHeight
    /\ cy = viewHeight - 1

\* C36 as stated: GoToGlobalIndex and GoToCoinRow end without a runtime
\* panic for every index and every table length.
C36_NoRuntimeFault == navFault = "none"

====
